---------------------------- MODULE Spec2Model ----------------------------
(***************************************************************************)
(* A model of the text-synthesis core of smart_document_analyser:          *)
(*   modules/math_extractor.py  MathExpressionExtractor                    *)
(*   modules/ner_processor.py   NERProcessor                               *)
(*   modules/summarizer.py      TextSummarizer                             *)
(*   modules/pdf_processor.py   PDFTextExtractor                           *)
(*   main.py                    analyze_document                           *)
(* A Python str is a sequence of one-character strings.  Positions are     *)
(* 1-based here; a Python slice text[a:b] is SubSeq(text, a + 1, b).       *)
(***************************************************************************)
EXTENDS Integers, Sequences, FiniteSets, TLC

(***************************************************************************)
(* Characters: the classes Python's str methods and the re module use.     *)
(***************************************************************************)
LowerSeq ==
    <<"a","b","c","d","e","f","g","h","i","j","k","l","m",
      "n","o","p","q","r","s","t","u","v","w","x","y","z">>

UpperSeq ==
    <<"A","B","C","D","E","F","G","H","I","J","K","L","M",
      "N","O","P","Q","R","S","T","U","V","W","X","Y","Z">>

GreekLowerSeq ==
    <<"α","β","γ","δ","ε","ζ","η","θ","ι","κ","λ","μ",
      "ν","ξ","ο","π","ρ","ς","σ","τ","υ","φ","χ","ψ","ω">>

GreekUpperSeq ==
    <<"Α","Β","Γ","Δ","Ε","Ζ","Η","Θ","Ι","Κ","Λ","Μ",
      "Ν","Ξ","Ο","Π","Ρ","Σ","Σ","Τ","Υ","Φ","Χ","Ψ","Ω">>

Range(f) == {f[i] : i \in DOMAIN f}

LowerLetters == Range(LowerSeq)
UpperLetters == Range(UpperSeq)
GreekLower == Range(GreekLowerSeq)
GreekUpper == Range(GreekUpperSeq)
AsciiLetters == LowerLetters \cup UpperLetters
Digits == {"0","1","2","3","4","5","6","7","8","9"}

\* str.isalpha / str.isdigit / str.isalnum / str.isspace on one character
IsAlpha(c) == c \in AsciiLetters \cup GreekLower \cup GreekUpper
IsDigit(c) == c \in Digits
IsAlnum(c) == IsAlpha(c) \/ IsDigit(c)
WhiteSpace == {" ", "\n", "\t", "\r"}
IsSpace(c) == c \in WhiteSpace
\* the regex class \w
WordChars == AsciiLetters \cup GreekLower \cup GreekUpper \cup Digits \cup {"_"}

IndexIn(seq, c) == CHOOSE i \in DOMAIN seq : seq[i] = c

\* str.lower / str.upper on one character
LowerChar(c) ==
    IF c \in UpperLetters THEN LowerSeq[IndexIn(UpperSeq, c)]
    ELSE IF c \in GreekUpper THEN GreekLowerSeq[IndexIn(GreekUpperSeq, c)]
    ELSE c

UpperChar(c) ==
    IF c \in LowerLetters THEN UpperSeq[IndexIn(LowerSeq, c)]
    ELSE IF c \in GreekLower \ {"ς"} THEN GreekUpperSeq[IndexIn(GreekLowerSeq, c)]
    ELSE c

\* str.lower
Lower(s) == [i \in 1..Len(s) |-> LowerChar(s[i])]

\* The characters in increasing order of code point: the order in which Python
\* compares two characters.  A character SANY cannot read is written by its
\* code point, "U+2211" for the summation sign.
CodeOrder ==
    <<"\t", "\n", "\r", " ", "!", "\"", "#", "$", "%", "&", "'", "(", ")", "*", "+",
      ",", "-", ".", "/">> \o
    <<"0","1","2","3","4","5","6","7","8","9">> \o
    <<":", ";", "<", "=", ">", "?", "@">> \o UpperSeq \o
    <<"[", "\\", "]", "^", "_">> \o LowerSeq \o
    <<"{", "|", "}", "~", "×", "÷">> \o
    <<"Α","Β","Γ","Δ","Ε","Ζ","Η","Θ","Ι","Κ","Λ","Μ",
      "Ν","Ξ","Ο","Π","Ρ","Σ","Τ","Υ","Φ","Χ","Ψ","Ω">> \o GreekLowerSeq \o
    <<"U+2202", "U+2208", "U+2209", "U+220F", "U+2211", "U+2212", "U+221A", "U+221E",
      "U+2229", "U+222A", "U+222B", "U+2248", "U+2260", "U+2264", "U+2265",
      "U+2282", "U+2283">>

Ord(c) == IndexIn(CodeOrder, c)

(***************************************************************************)
(* str helpers.  None of them recurses over the characters of its          *)
(* argument, so that long texts are within reach.                          *)
(***************************************************************************)
Idx(n) == [i \in 1..n |-> i]

Min(a, b) == IF a < b THEN a ELSE b
Max(a, b) == IF a > b THEN a ELSE b
SetMax(S) == CHOOSE x \in S : \A y \in S : y <= x
SetMin(S) == CHOOSE x \in S : \A y \in S : x <= y

\* text[a:b] for 0 <= a, b (Python slice with both ends clamped to the text)
Slice(s, a, b) == SubSeq(s, a + 1, Min(b, Len(s)))

\* the first position >= i whose character is not in set, Len(s) + 1 if none
RunEnd(s, i, set) ==
    CHOOSE j \in i..(Len(s) + 1) :
        /\ (j = Len(s) + 1 \/ s[j] \notin set)
        /\ \A k \in i..(j - 1) : s[k] \in set

\* str.strip()
Strip(s) ==
    LET n == Len(s)
        From(a) ==
            IF a > n THEN <<>>
            ELSE SubSeq(s, a, n + a - (CHOOSE j \in a..n :
                                          /\ ~IsSpace(s[n + a - j])
                                          /\ \A k \in a..(j - 1) : IsSpace(s[n + a - k])))
    IN  From(RunEnd(s, 1, WhiteSpace))

\* the positions at which a maximal run of characters of set starts / ends
RunStarts(s, set) ==
    SelectSeq(Idx(Len(s)), LAMBDA i : s[i] \in set /\ (i = 1 \/ s[i - 1] \notin set))
RunEnds(s, set) ==
    SelectSeq(Idx(Len(s)), LAMBDA i : s[i] \in set /\ (i = Len(s) \/ s[i + 1] \notin set))

\* the positions at which a maximal run of characters outside set starts / ends
GapStarts(s, set) ==
    SelectSeq(Idx(Len(s)), LAMBDA i : s[i] \notin set /\ (i = 1 \/ s[i - 1] \in set))
GapEnds(s, set) ==
    SelectSeq(Idx(Len(s)), LAMBDA i : s[i] \notin set /\ (i = Len(s) \/ s[i + 1] \in set))

\* str.split(): the maximal runs of non-whitespace characters
Split(s) ==
    LET Words(a, b) == [k \in 1..Len(a) |-> SubSeq(s, a[k], b[k])]
    IN  Words(GapStarts(s, WhiteSpace), GapEnds(s, WhiteSpace))

\* len(s.split())
WordCount(s) == Len(GapStarts(s, WhiteSpace))

\* re.split(r'[set]+', s): the pieces between the maximal runs of characters of
\* set, the empty pieces before a leading run and after a trailing run included
SplitOn(s, set) ==
    LET Pieces(a, b) ==
            [k \in 1..(Len(a) + 1) |->
                SubSeq(s, IF k = 1 THEN 1 ELSE b[k - 1] + 1,
                          IF k = Len(a) + 1 THEN Len(s) ELSE a[k] - 1)]
    IN  Pieces(RunStarts(s, set), RunEnds(s, set))

\* re.sub(r'[set]+', ' ', s): every maximal run of characters of set becomes
\* one space
SubRuns(s, set) ==
    LET Spaced(keep) ==
            [k \in 1..Len(keep) |-> IF s[keep[k]] \in set THEN " " ELSE s[keep[k]]]
    IN  Spaced(SelectSeq(Idx(Len(s)),
                         LAMBDA i : s[i] \notin set \/ i = 1 \/ s[i - 1] \notin set))

\* ' '.join(s.split())
NormalizeSpace(s) == Strip(SubRuns(s, WhiteSpace))

\* sep.join(parts[a..b]), by halving so that the depth stays small
RECURSIVE JoinRange(_, _, _, _)
JoinRange(parts, sep, a, b) ==
    IF a > b THEN <<>>
    ELSE IF a = b THEN parts[a]
    ELSE LET mid == (a + b) \div 2
         IN  JoinRange(parts, sep, a, mid) \o sep \o JoinRange(parts, sep, mid + 1, b)

\* sep.join(parts)
Join(parts, sep) == JoinRange(parts, sep, 1, Len(parts))

\* needle in s, and s.find(needle) + 1 (0 when absent)
OccursAt(s, needle, i) ==
    /\ i + Len(needle) - 1 <= Len(s)
    /\ \A k \in 1..Len(needle) : s[i + k - 1] = needle[k]
Contains(s, needle) == \E i \in 1..(Len(s) - Len(needle) + 1) : OccursAt(s, needle, i)
Find(s, needle) ==
    IF Contains(s, needle)
    THEN CHOOSE i \in 1..(Len(s) - Len(needle) + 1) :
            /\ OccursAt(s, needle, i)
            /\ \A k \in 1..(i - 1) : ~OccursAt(s, needle, k)
    ELSE 0

\* a < b for two str
StrLess(a, b) ==
    \E k \in 1..(Len(b)) :
        /\ \A j \in 1..(k - 1) : j <= Len(a) /\ a[j] = b[j]
        /\ k - 1 <= Len(a)
        /\ (k > Len(a) \/ Ord(a[k]) < Ord(b[k]))

(***************************************************************************)
(* The re module.  A pattern is a sequence of nodes:                       *)
(*   cls   one character of a class (neg: of its complement)               *)
(*   lit   a literal: one character of sets[1], then one of sets[2], ...   *)
(*   rep   min..max characters of a class, greedy or lazy (max -1: no      *)
(*         upper limit)                                                    *)
(*   grp   (?:...)? and (?:...)*: a sub-pattern at most once or any number *)
(*         of times, greedy                                                *)
(*   alt   a|b|...                                                         *)
(*   wb    \b      bol  ^      eol  $                                      *)
(*   gs, ge   the opening and closing parenthesis of capturing group 1     *)
(* M follows the backtracking order of re: it returns the first match the  *)
(* engine finds for the pattern at position i.                             *)
(***************************************************************************)
Cls(set) == [t |-> "cls", set |-> set, neg |-> FALSE]
NotCls(set) == [t |-> "cls", set |-> set, neg |-> TRUE]
Rep(set, lo, hi) == [t |-> "rep", set |-> set, neg |-> FALSE, min |-> lo, max |-> hi, greedy |-> TRUE]
Plus(set) == Rep(set, 1, -1)
Star(set) == Rep(set, 0, -1)
\* . is any character but a newline
DotPlusLazy == [t |-> "rep", set |-> {"\n"}, neg |-> TRUE, min |-> 1, max |-> -1, greedy |-> FALSE]
DotStarLazy == [t |-> "rep", set |-> {"\n"}, neg |-> TRUE, min |-> 0, max |-> -1, greedy |-> FALSE]
Opt(p) == [t |-> "grp", rs |-> p, max |-> 1]
Many(p) == [t |-> "grp", rs |-> p, max |-> -1]
Alt(ps) == [t |-> "alt", alts |-> ps]
WB == [t |-> "wb"]
BOL == [t |-> "bol"]
EOL == [t |-> "eol"]
GS == [t |-> "gs"]
GE == [t |-> "ge"]

\* the characters a class matches under re.IGNORECASE
IC(set) == set \cup {LowerChar(c) : c \in set} \cup {UpperChar(c) : c \in set}
\* a literal, with and without re.IGNORECASE
Lit(str) == <<[t |-> "lit", sets |-> <<>> \o [k \in 1..Len(str) |-> {str[k]}]]>>
LitI(str) == <<[t |-> "lit", sets |-> <<>> \o [k \in 1..Len(str) |-> IC({str[k]})]]>>

NoMatch == [e |-> 0, g |-> <<0, 0>>]
InCls(c, h) == (c \in h.set) # h.neg
IsWordAt(s, i) == i >= 1 /\ i <= Len(s) /\ s[i] \in WordChars

\* the first position >= i whose character the class of h does not match
ClsRunEnd(s, i, h) ==
    CHOOSE j \in i..(Len(s) + 1) :
        /\ (j = Len(s) + 1 \/ ~InCls(s[j], h))
        /\ \A k \in i..(j - 1) : InCls(s[k], h)

\* the first match if there is one, the second if not
OrElse(first, second) == IF first # NoMatch THEN first ELSE second

RECURSIVE M(_, _, _, _)
M(s, p, i, g) ==
    IF Len(p) = 0 THEN [e |-> i, g |-> g]
    ELSE
    LET h == Head(p)
        rest == Tail(p)
    IN  CASE h.t = "cls" ->
               IF i <= Len(s) /\ InCls(s[i], h) THEN M(s, rest, i + 1, g) ELSE NoMatch
          [] h.t = "lit" ->
               IF /\ i + Len(h.sets) - 1 <= Len(s)
                  /\ \A k \in 1..Len(h.sets) : s[i + k - 1] \in h.sets[k]
               THEN M(s, rest, i + Len(h.sets), g) ELSE NoMatch
          [] h.t = "rep" ->
               LET \* the ends lo..hi the run may have: the preferred one first,
                   \* then the nearest to it after which the rest matches
                   Later(ok) ==
                       IF ok = {} THEN NoMatch
                       ELSE M(s, rest, IF h.greedy THEN SetMax(ok) ELSE SetMin(ok), g)
                   Between(lo, hi) ==
                       IF hi < lo THEN NoMatch
                       ELSE OrElse(M(s, rest, IF h.greedy THEN hi ELSE lo, g),
                                   Later({e \in lo..hi : M(s, rest, e, g) # NoMatch}))
                   UpTo(stop) ==
                       Between(i + h.min, IF h.max < 0 THEN stop ELSE Min(stop, i + h.max))
               IN  UpTo(ClsRunEnd(s, i, h))
          [] h.t = "grp" ->
               OrElse(M(s, h.rs \o (IF h.max = 1 THEN <<>> ELSE <<h>>) \o rest, i, g),
                      M(s, rest, i, g))
          [] h.t = "alt" ->
               LET \* the first alternative after which the rest matches
                   Matches(a) == M(s, h.alts[a] \o rest, i, g) # NoMatch
               IN  IF \A a \in 1..Len(h.alts) : ~Matches(a) THEN NoMatch
                   ELSE M(s, h.alts[CHOOSE a \in 1..Len(h.alts) :
                                       Matches(a) /\ \A b \in 1..(a - 1) : ~Matches(b)]
                                \o rest, i, g)
          [] h.t = "wb" ->
               IF IsWordAt(s, i - 1) # IsWordAt(s, i) THEN M(s, rest, i, g) ELSE NoMatch
          [] h.t = "bol" -> IF i = 1 THEN M(s, rest, i, g) ELSE NoMatch
          [] h.t = "eol" ->
               IF i = Len(s) + 1 \/ (i = Len(s) /\ s[i] = "\n")
               THEN M(s, rest, i, g) ELSE NoMatch
          [] h.t = "gs" -> M(s, rest, i, <<i, g[2]>>)
          [] h.t = "ge" -> M(s, rest, i, <<g[1], i>>)

MatchAt(s, p, i) == M(s, p, i, <<0, 0>>)

\* ms[j] is the match of the pattern at position j of the text, for j up to
\* Len(text) + 1.  The first position >= i at which there is a match,
\* Len(ms) + 1 if there is none
FirstMatch(ms, i) ==
    IF \A j \in i..Len(ms) : ms[j] = NoMatch THEN Len(ms) + 1
    ELSE CHOOSE j \in i..Len(ms) : ms[j] # NoMatch /\ \A k \in i..(j - 1) : ms[k] = NoMatch

\* the position from which the scan goes on after it has looked for a match
\* from position i on: the end of the match it found
ScanStep(ms, i) ==
    LET After(b) == IF b > Len(ms) THEN b
                    ELSE IF ms[b].e = b THEN b + 1
                    ELSE ms[b].e
    IN  After(FirstMatch(ms, i))

\* the positions from which the scan looks for a match, one after the other.
\* seen holds the first 2^k of them and jump[i] is 2^k steps on from i, so
\* that the depth is the logarithm of the number of matches
RECURSIVE ScanFrom(_, _)
ScanFrom(jump, seen) ==
    LET Grown(more) ==
            IF more \subseteq seen THEN seen
            ELSE ScanFrom(<<>> \o [i \in 1..Len(jump) |-> jump[jump[i]]], seen \cup more)
    IN  Grown({jump[i] : i \in seen})

\* re.finditer(p, s): the matches of p in s, leftmost first, not overlapping;
\* b is match.start() + 1, e is match.end() + 1
finditer(s, p) ==
    LET Matches(ms, chosen) ==
            [k \in 1..Len(chosen) |->
                [b |-> chosen[k], e |-> ms[chosen[k]].e, g |-> ms[chosen[k]].g]]
        Chosen(ms, starts) ==
            Matches(ms, SelectSeq(Idx(Len(ms)), LAMBDA b : b \in starts))
        Scanned(ms, from) == Chosen(ms, {FirstMatch(ms, i) : i \in from})
        All(ms) ==
            Scanned(ms, ScanFrom(<<>> \o [i \in 1..(Len(ms) + 1) |-> ScanStep(ms, i)], {1}))
    IN  All(<<>> \o [j \in 1..(Len(s) + 1) |-> MatchAt(s, p, j)])

\* match.group(0) and match.group(1)
Group0(s, m) == SubSeq(s, m.b, m.e - 1)
Group1(s, m) == SubSeq(s, m.g[1], m.g[2] - 1)

\* re.findall(p, s) for a pattern without a group, and for one with one group
findall(s, p) ==
    LET Groups(ms) == [k \in 1..Len(ms) |-> Group0(s, ms[k])] IN Groups(finditer(s, p))

findall1(s, p) ==
    LET Groups(ms) == [k \in 1..Len(ms) |-> Group1(s, ms[k])] IN Groups(finditer(s, p))

\* re.sub(p, repl, s)
RECURSIVE SubFrom(_, _, _, _, _)
SubFrom(s, ms, k, from, repl) ==
    IF k > Len(ms) THEN SubSeq(s, from, Len(s))
    ELSE SubSeq(s, from, ms[k].b - 1) \o repl \o SubFrom(s, ms, k + 1, ms[k].e, repl)
sub(s, p, repl) == SubFrom(s, finditer(s, p), 1, 1, repl)

(***************************************************************************)
(* modules/math_extractor.py                                               *)
(***************************************************************************)
AsciiAlnum == AsciiLetters \cup Digits
\* [A-Za-z0-9\s\^\=\+\-\*/\(\)\.]
EqChars == AsciiAlnum \cup WhiteSpace \cup {"^", "=", "+", "-", "*", "/", "(", ")", "."}
\* [α-ωΑ-Ω]
GreekChars == GreekLower \cup GreekUpper

\* self.patterns, as compiled with re.IGNORECASE | re.MULTILINE.  grp says
\* whether the pattern has a capturing group: re.findall then returns that
\* group, not the match.
patterns ==
    << [name |-> "equation", grp |-> FALSE,
        p |-> <<Plus(EqChars), Star(WhiteSpace), Cls({"="}), Star(WhiteSpace), Plus(EqChars)>>],
       [name |-> "delimited", grp |-> TRUE,
        p |-> Lit(<<"$", "$">>) \o <<Star(WhiteSpace), GS, DotPlusLazy, GE, Star(WhiteSpace)>>
                \o Lit(<<"$", "$">>)],
       [name |-> "scientific", grp |-> FALSE,
        p |-> <<Plus(Digits), Rep({"."}, 0, 1), Star(Digits), Star(WhiteSpace),
                Cls(IC({"×", "x", "*"})), Star(WhiteSpace)>> \o Lit(<<"1", "0">>)
                \o <<Rep({"^"}, 0, 1), Rep({"-", "+"}, 0, 1), Plus(Digits)>>],
       [name |-> "fraction", grp |-> FALSE,
        p |-> <<Plus(Digits), Cls({"/"}), Plus(Digits)>>],
       [name |-> "power", grp |-> FALSE,
        p |-> <<Plus(AsciiAlnum), Cls({"^"}), Plus(AsciiAlnum \cup {"+", "-"})>>],
       [name |-> "greek", grp |-> FALSE,
        p |-> <<Plus(GreekChars), Star(WhiteSpace), Cls({"=", "+", "-", "*", "/"}),
                Star(WhiteSpace),
                Plus(AsciiAlnum \cup {"+", "-", "*", "/", "^", "(", ")", "."})>>],
       [name |-> "sum", grp |-> FALSE,
        p |-> <<Cls({"U+2211", "U+222B", "U+220F"}), Plus(EqChars)>>],
       [name |-> "function", grp |-> TRUE,
        p |-> <<GS, Alt(<<LitI(<<"s","i","n">>), LitI(<<"c","o","s">>), LitI(<<"t","a","n">>),
                          LitI(<<"l","o","g">>), LitI(<<"l","n">>), LitI(<<"e","x","p">>),
                          LitI(<<"s","q","r","t">>), LitI(<<"a","b","s">>),
                          LitI(<<"m","a","x">>), LitI(<<"m","i","n">>),
                          LitI(<<"l","i","m">>)>>),
                GE, Star(WhiteSpace), Cls({"("}), Plus(EqChars), Cls({")"})>>],
       [name |-> "derivative", grp |-> FALSE,
        p |-> <<Cls({"d", "D"}), Cls(AsciiLetters), Cls({"/"}), Cls({"d", "D"}),
                Cls(AsciiLetters)>>],
       [name |-> "partial", grp |-> FALSE,
        p |-> <<Cls({"U+2202"}), Cls(AsciiLetters), Cls({"/"}), Cls({"U+2202"}),
                Cls(AsciiLetters)>>],
       [name |-> "matrix", grp |-> FALSE,
        p |-> <<Cls({"["}), Plus(AsciiAlnum \cup WhiteSpace \cup {",", ";", "+", "-", "*", "/"}),
                Cls({"]"})>>],
       [name |-> "inequality", grp |-> FALSE,
        p |-> <<Plus(EqChars \ {"="}), Star(WhiteSpace),
                Cls({"<", ">", "U+2264", "U+2265", "U+2260"}), Star(WhiteSpace),
                Plus(EqChars \ {"="})>>] >>

\* self.math_symbols
math_symbols ==
    {"=", "+", "-", "*", "/", "^", "U+221A", "U+2211", "U+222B", "U+220F"}
        \cup (GreekLower \ {"ς"})
        \cup {"U+221E", "U+2202", "U+2264", "U+2265", "U+2260", "U+2248", "U+2208",
              "U+2209", "U+2282", "U+2283", "U+222A", "U+2229"}

\* the false_positives of is_valid_math_expression
math_false_positives ==
    { <<"p","a","g","e">>, <<"f","i","g","u","r","e">>, <<"t","a","b","l","e">>,
      <<"s","e","c","t","i","o","n">>, <<"c","h","a","p","t","e","r">>,
      <<"r","e","f","e","r","e","n","c","e">>,
      <<"b","i","b","l","i","o","g","r","a","p","h","y">>, <<"i","n","d","e","x">>,
      <<"a","p","p","e","n","d","i","x">> }

MinExprLen == 3
MaxExprLen == 200
MinAlnum == 2
MaxExpressions == 50
MaxFormulas == 30
context_chars == 100

\* r'^\$\$\s*|\s*\$\$$'
DollarWrappers ==
    <<Alt(<< <<BOL>> \o Lit(<<"$", "$">>) \o <<Star(WhiteSpace)>>,
             <<Star(WhiteSpace)>> \o Lit(<<"$", "$">>) \o <<EOL>> >>)>>

\* clean_expression gone wrong: the whitespace is left as it is
clean_expression_keeping_whitespace(expr) ==
    LET Replaced(unwrapped) ==
            [i \in 1..Len(unwrapped) |->
                IF unwrapped[i] = "×" THEN "*"
                ELSE IF unwrapped[i] = "÷" THEN "/"
                ELSE unwrapped[i]]
    IN  Replaced(sub(expr, DollarWrappers, <<>>))

clean_expression(expr) ==
    LET Replaced(unwrapped) ==
            [i \in 1..Len(unwrapped) |->
                IF unwrapped[i] = "×" THEN "*"
                ELSE IF unwrapped[i] = "÷" THEN "/"
                ELSE unwrapped[i]]
    IN  Replaced(sub(SubRuns(Strip(expr), WhiteSpace), DollarWrappers, <<>>))

\* the checks of is_valid_math_expression, on the cleaned string
ValidCleaned(cleaned) ==
    /\ ~(Len(cleaned) < MinExprLen \/ Len(cleaned) > MaxExprLen)
    /\ \E i \in 1..Len(cleaned) : cleaned[i] \in math_symbols
    /\ ~(Cardinality({i \in 1..Len(cleaned) : IsAlnum(cleaned[i])}) < MinAlnum)
    /\ ~(\E fp \in math_false_positives : Contains(Lower(cleaned), fp))

\* is_valid_math_expression gone wrong: the false positives are not looked for
is_valid_ignoring_false_positives(expr) ==
    LET Valid(cleaned) ==
            /\ ~(Len(cleaned) < MinExprLen \/ Len(cleaned) > MaxExprLen)
            /\ \E i \in 1..Len(cleaned) : cleaned[i] \in math_symbols
            /\ ~(Cardinality({i \in 1..Len(cleaned) : IsAlnum(cleaned[i])}) < MinAlnum)
    IN  Valid(clean_expression(expr))

is_valid_math_expression(expr) == ValidCleaned(clean_expression(expr))

\* re.findall(pattern, text, re.IGNORECASE | re.MULTILINE) for one pattern
PatternMatches(text, pat) == IF pat.grp THEN findall1(text, pat.p) ELSE findall(text, pat.p)

\* the cleaned forms of the matches of one pattern that are not empty and valid
PatternExpressions(text, pat) ==
    LET Cleaned(ok) == [k \in 1..Len(ok) |-> clean_expression(ok[k])]
    IN  Cleaned(SelectSeq(PatternMatches(text, pat),
                          LAMBDA m : Len(m) > 0 /\ is_valid_math_expression(m)))

\* [seq[i] for i in keep]
Pick(seq, keep) == [k \in 1..Len(keep) |-> seq[keep[k]]]

\* seq without the elements that occur earlier in it
Dedup(seq) ==
    Pick(seq, SelectSeq(Idx(Len(seq)), LAMBDA i : \A j \in 1..(i - 1) : seq[j] # seq[i]))

RECURSIVE Concat(_)
Concat(seqs) == IF Len(seqs) = 0 THEN <<>> ELSE Head(seqs) \o Concat(Tail(seqs))

\* the set `expressions` after the loop over the patterns, in insertion order
CollectedExpressions(text) ==
    Dedup(Concat([k \in 1..Len(patterns) |-> PatternExpressions(text, patterns[k])]))

\* list.sort(key=len, reverse=True): stable, longer first
SortByLenDesc(seq) ==
    LET n == Len(seq)
        rank == [i \in 1..n |->
                    Cardinality({j \in 1..n : \/ Len(seq[j]) > Len(seq[i])
                                              \/ Len(seq[j]) = Len(seq[i]) /\ j < i}) + 1]
    IN  [k \in 1..n |-> seq[CHOOSE i \in 1..n : rank[i] = k]]

\* seq[:n]
Take(seq, n) == SubSeq(seq, 1, Min(n, Len(seq)))

Reverse(seq) == [k \in 1..Len(seq) |-> seq[Len(seq) + 1 - k]]
Rotate(seq, r) == [k \in 1..Len(seq) |-> seq[((k + r - 1) % Len(seq)) + 1]]

\* list(a_set): the iteration order of a set of str depends on the hashes of
\* its elements, which change with the hash seed of the process.  The orders
\* modelled are the rotations of the insertion order, forward and reversed
\* (every order for a set of at most three elements); seed = <<reversed, r>>
\* names one of them.
list_of_set(inserted, seed) ==
    IF Len(inserted) = 0 THEN <<>>
    ELSE Rotate(IF seed[1] THEN Reverse(inserted) ELSE inserted, seed[2] % Len(inserted))

extract_expressions(text, seed) ==
    Take(SortByLenDesc(list_of_set(CollectedExpressions(text), seed)), MaxExpressions)

\* expressions_with_context after the loop over the patterns
FormulaMatches(text) ==
    Concat([k \in 1..Len(patterns) |->
        LET Found(ok) ==
                [j \in 1..Len(ok) |->
                    [expression |-> clean_expression(Group0(text, ok[j])),
                     context |-> Strip(Slice(text, Max(0, (ok[j].b - 1) - context_chars),
                                             Min(Len(text), (ok[j].e - 1) + context_chars))),
                     position |-> ok[j].b - 1]]
        IN  Found(SelectSeq(finditer(text, patterns[k].p),
                            LAMBDA m : is_valid_math_expression(Group0(text, m))))])

\* list.sort(key=lambda x: x['position']): stable, smaller position first
SortByPosition(seq) ==
    LET n == Len(seq)
        rank == [i \in 1..n |->
                    Cardinality({j \in 1..n : \/ seq[j].position < seq[i].position
                                              \/ seq[j].position = seq[i].position /\ j < i}) + 1]
    IN  [k \in 1..n |-> seq[CHOOSE i \in 1..n : rank[i] = k]]

extract_formulas_with_context(text) ==
    LET unique_expressions(all) ==
            Pick(all, SelectSeq(Idx(Len(all)),
                    LAMBDA i : \A j \in 1..(i - 1) : all[j].expression # all[i].expression))
    IN  Take(SortByPosition(unique_expressions(FormulaMatches(text))), MaxFormulas)

(***************************************************************************)
(* modules/ner_processor.py.  The tagger (spaCy) is a collaborator: what   *)
(* it returns for a text, doc.ents, is an input of the model, a sequence   *)
(* of spans [start, end, text, label].                                     *)
(***************************************************************************)
\* the characters clean_entity keeps: [\w\s\.\-\(\)]
EntityChars == WordChars \cup WhiteSpace \cup {".", "-", "(", ")"}

clean_entity(entity_text) ==
    SelectSeq(SubRuns(Strip(entity_text), WhiteSpace), LAMBDA c : c \in EntityChars)

\* the false_positives of is_valid_entity
entity_false_positives ==
    { <<"t","h","e">>, <<"a","n","d">>, <<"o","r">>, <<"b","u","t">>, <<"i","n">>,
      <<"o","n">>, <<"a","t">>, <<"t","o">>, <<"f","o","r">>, <<"o","f">>,
      <<"w","i","t","h">>, <<"b","y">>, <<"f","r","o","m">>, <<"u","p">>,
      <<"a","b","o","u","t">>, <<"i","n","t","o">>, <<"t","h","r","o","u","g","h">>,
      <<"d","u","r","i","n","g">>, <<"b","e","f","o","r","e">>, <<"a","f","t","e","r">>,
      <<"a","b","o","v","e">>, <<"b","e","l","o","w">>, <<"b","e","t","w","e","e","n">>,
      <<"a","m","o","n","g">>, <<"p","a","g","e">>, <<"f","i","g","u","r","e">>,
      <<"t","a","b","l","e">>, <<"s","e","c","t","i","o","n">>,
      <<"c","h","a","p","t","e","r">>, <<"a","p","p","e","n","d","i","x">>,
      <<"r","e","f","e","r","e","n","c","e">>, <<"e","t">>, <<"a","l">> }

pronouns ==
    { <<"h","e">>, <<"s","h","e">>, <<"i","t">>, <<"t","h","e","y">>, <<"w","e">>,
      <<"y","o","u">>, <<"i">> }

vague_times ==
    { <<"n","o","w">>, <<"t","h","e","n">>, <<"w","h","e","n">>, <<"t","i","m","e">>,
      <<"d","a","t","e">> }

MinEntityLen == 2
MaxEntityLen == 100
MinOrgLen == 3
MaxEntities == 20

\* str.isdigit
IsDigitStr(s) == Len(s) > 0 /\ \A i \in 1..Len(s) : IsDigit(s[i])

is_valid_entity(entity_text, entity_label) ==
    LET Valid(cleaned) ==
            /\ ~(Len(cleaned) < MinEntityLen \/ Len(cleaned) > MaxEntityLen)
            /\ ~(Len(cleaned) = 1 \/ IsDigitStr(cleaned))
            /\ Lower(cleaned) \notin entity_false_positives
            /\ CASE entity_label = "PERSON" ->
                      /\ \E i \in 1..Len(cleaned) : IsAlpha(cleaned[i])
                      /\ ~(WordCount(cleaned) = 1 /\ Lower(cleaned) \in pronouns)
                 [] entity_label = "ORG" ->
                      ~(WordCount(cleaned) = 1 /\ Len(cleaned) < MinOrgLen)
                 [] entity_label \in {"DATE", "TIME"} ->
                      Lower(cleaned) \notin vague_times
                 [] OTHER -> TRUE
    IN  Valid(clean_entity(entity_text))

\* label_mapping.get(label, label)
label_mapping(label) ==
    CASE label = "PERSON" -> "People"
      [] label = "ORG" -> "Organizations"
      [] label = "GPE" -> "Locations"
      [] label = "DATE" -> "Dates"
      [] label = "TIME" -> "Times"
      [] label = "MONEY" -> "Money"
      [] label = "PERCENT" -> "Percentages"
      [] label = "QUANTITY" -> "Quantities"
      [] label = "ORDINAL" -> "Ordinals"
      [] label = "CARDINAL" -> "Numbers"
      [] label = "EVENT" -> "Events"
      [] label = "FAC" -> "Facilities"
      [] label = "LAW" -> "Laws"
      [] label = "LANGUAGE" -> "Languages"
      [] label = "NORP" -> "Nationalities"
      [] label = "PRODUCT" -> "Products"
      [] label = "WORK_OF_ART" -> "Works of Art"
      [] OTHER -> label

\* sorted gone wrong: the largest first
sorted_descending(S) ==
    [k \in 1..Cardinality(S) |->
        CHOOSE x \in S : Cardinality({y \in S : StrLess(x, y)}) = k - 1]

\* sorted(a_set_of_str)
sorted(S) ==
    [k \in 1..Cardinality(S) |->
        CHOOSE x \in S : Cardinality({y \in S : StrLess(y, x)}) = k - 1]

\* the spans of doc.ents that the loop of extract_entities appends: valid, and
\* not seen before under the same label with the same lower-cased cleaned text
AppendedSpans(ents) ==
    LET key(e) == <<Lower(clean_entity(e.text)), e.label>>
        Unseen(valid) ==
            Pick(valid, SelectSeq(Idx(Len(valid)),
                    LAMBDA i : \A j \in 1..(i - 1) : key(valid[j]) # key(valid[i])))
    IN  Unseen(SelectSeq(ents, LAMBDA e : is_valid_entity(e.text, e.label)))

\* entities_by_type gone wrong: the lists are not cut
entities_by_type_uncapped(ents) ==
    LET ByLabel(app) ==
            [l \in {app[k].label : k \in 1..Len(app)} |->
                sorted({clean_entity(app[k].text) :
                            k \in {j \in 1..Len(app) : app[j].label = l}})]
    IN  ByLabel(AppendedSpans(ents))

\* entities_by_type after the sort: label -> sorted(list(set(...)))[:20]
entities_by_type(ents) ==
    LET ByLabel(app) ==
            [l \in {app[k].label : k \in 1..Len(app)} |->
                Take(sorted({clean_entity(app[k].text) :
                                k \in {j \in 1..Len(app) : app[j].label = l}}),
                     MaxEntities)]
    IN  ByLabel(AppendedSpans(ents))

SpacyNotAvailable ==
    <<"s","p","a","C","y"," ","m","o","d","e","l"," ","n","o","t"," ",
      "a","v","a","i","l","a","b","l","e">>
ExtractionFailed ==
    <<"E","n","t","i","t","y"," ","e","x","t","r","a","c","t","i","o","n"," ",
      "f","a","i","l","e","d",":"," ">>

\* extract_entities.  doc is what self.nlp(text) does: [ok |-> TRUE, ents |-> ...]
\* or [ok |-> FALSE, err |-> str(e)] when it raises; doc.text is the text.
extract_entities(nlp, doc) ==
    IF ~nlp THEN [l \in {"error"} |-> <<SpacyNotAvailable>>]
    ELSE IF ~doc.ok THEN [l \in {"error"} |-> <<ExtractionFailed \o doc.err>>]
    ELSE
    LET \* order: the labels in the order in which entities_by_type got its
        \* keys.  readable_entities[readable] is assigned once per label that
        \* maps to readable: the last assignment stays
        readable_entities(by_type, order) ==
            [r \in {label_mapping(l) : l \in DOMAIN by_type} |->
                by_type[order[SetMax({k \in 1..Len(order) : label_mapping(order[k]) = r})]]]
        Labels(app) == Dedup([k \in 1..Len(app) |-> app[k].label])
    IN  readable_entities(entities_by_type(doc.ents), Labels(AppendedSpans(doc.ents)))

Marker == <<"*", "*">>

\* the sort of highlight_entities_in_text gone wrong: smaller start first
sort_by_start_ascending(entities) ==
    LET Ranked(rank) ==
            [k \in 1..Len(entities) |-> entities[CHOOSE i \in 1..Len(entities) : rank[i] = k]]
    IN  Ranked([i \in 1..Len(entities) |->
                   Cardinality({j \in 1..Len(entities) :
                                   \/ entities[j].start < entities[i].start
                                   \/ entities[j].start = entities[i].start /\ j < i}) + 1])

\* entities.sort(key=lambda x: x[0], reverse=True): stable, greater start first
sort_by_start_reverse(entities) ==
    LET Ranked(rank) ==
            [k \in 1..Len(entities) |-> entities[CHOOSE i \in 1..Len(entities) : rank[i] = k]]
    IN  Ranked([i \in 1..Len(entities) |->
                   Cardinality({j \in 1..Len(entities) :
                                   \/ entities[j].start > entities[i].start
                                   \/ entities[j].start = entities[i].start /\ j < i}) + 1])

\* the loop of highlight_entities_in_text gone wrong: an entity that reaches
\* into the entity highlighted before it is left out
RECURSIVE ApplyHighlightingResolved(_, _, _)
ApplyHighlightingResolved(entities, k, highlighted_text) ==
    IF k > Len(entities) THEN highlighted_text
    ELSE ApplyHighlightingResolved(entities, k + 1,
            IF k > 1 /\ entities[k].end > entities[k - 1].start THEN highlighted_text
            ELSE Slice(highlighted_text, 0, entities[k].start)
                     \o Marker \o entities[k].text \o Marker
                     \o Slice(highlighted_text, entities[k].end, Len(highlighted_text)))

\* the loop of highlight_entities_in_text from the k-th entity on
RECURSIVE ApplyHighlighting(_, _, _)
ApplyHighlighting(entities, k, highlighted_text) ==
    IF k > Len(entities) THEN highlighted_text
    ELSE ApplyHighlighting(entities, k + 1,
            Slice(highlighted_text, 0, entities[k].start)
                \o Marker \o entities[k].text \o Marker
                \o Slice(highlighted_text, entities[k].end, Len(highlighted_text)))

\* highlight_entities_in_text.  doc is what self.nlp(text) does for doc.text.
highlight_entities_in_text(nlp, doc) ==
    IF ~nlp \/ ~doc.ok THEN doc.text
    ELSE ApplyHighlighting(
            sort_by_start_reverse(SelectSeq(doc.ents,
                                            LAMBDA e : is_valid_entity(e.text, e.label))),
            1, doc.text)

(***************************************************************************)
(* modules/summarizer.py.  The summarization model (the transformers       *)
(* pipeline) is a collaborator: what a call of self.summarizer returns,    *)
(* [ok |-> TRUE, summary_text |-> ...], or that it raises, [ok |-> FALSE], *)
(* is an input of the model.                                               *)
(***************************************************************************)
TooShort ==
    <<"T", "e", "x", "t", " ", "t", "o", "o", " ", "s", "h", "o", "r", "t", " ", "f",
      "o", "r", " ", "m", "e", "a", "n", "i", "n", "g", "f", "u", "l", " ", "s", "u",
      "m", "m", "a", "r", "i", "z", "a", "t", "i", "o", "n", ".">>

Unable ==
    <<"U", "n", "a", "b", "l", "e", " ", "t", "o", " ", "g", "e", "n", "e", "r", "a",
      "t", "e", " ", "s", "u", "m", "m", "a", "r", "y", " ", "f", "r", "o", "m", " ",
      "t", "h", "e", " ", "p", "r", "o", "v", "i", "d", "e", "d", " ", "t", "e", "x",
      "t", ".">>

MathToken ==
    <<"[", "M", "A", "T", "H", "_", "E", "X", "P", "R", "E", "S", "S", "I", "O", "N",
      "]">>

SummaryPrefix ==
    <<"S", "U", "M", "M", "A", "R", "Y", ":", " ">>
KeyPointsPrefix ==
    <<"K", "E", "Y", " ", "P", "O", "I", "N", "T", "S", ":", " ">>
FactsPrefix ==
    <<"I", "M", "P", "O", "R", "T", "A", "N", "T", " ", "F", "A", "C", "T", "S", ":",
      " ">>
FallbackFactsPrefix ==
    <<" ", "|", " ", "F", "A", "C", "T", "S", ":", " ">>
PartSep ==
    <<" ", "|", " ">>
ItemSep ==
    <<";", " ">>
SentenceSep ==
    <<".", " ">>
Ellipsis ==
    <<".", ".", ".">>

SentenceEnd == {".", "!", "?"}
\* the characters the cleaner keeps: [\w\s\.\,\!\?\;\:\-\(\)\"\']
CleanChars == WordChars \cup WhiteSpace \cup {".", ",", "!", "?", ";", ":", "-", "(", ")", "\"", "'"}

MinLineLen == 10
MaxRepeats == 3
MinWords == 50
DirectLimit == 900
ChunkLimit == 800
MaxChunks == 6
MinChunkWords == 20
ChunkMaxLength == 120
ChunkMinLength == 40
DirectReserve == 100
DirectMinReserve == 50
DirectMinFloor == 30
NumKeyPoints == 8
KeyPointMinLen == 30
KeyPointMinWords == 5
FallbackMinLen == 20
FallbackMinWords == 4
FallbackBuffer == 20
FallbackMaxFacts == 3
TopKeyPoints == 5
TopFacts == 5
MaxFacts == 10
NumberWindow == 50
NumberMinLen == 20
DateWindow == 40
DateMinLen == 15
NumberBoost == 8
DateBoost == 5

\* str.split('\n')
SplitLines(s) ==
    LET Lines(nl) ==
            [k \in 1..(Len(nl) + 1) |->
                SubSeq(s, IF k = 1 THEN 1 ELSE nl[k - 1] + 1,
                          IF k = Len(nl) + 1 THEN Len(s) ELSE nl[k] - 1)]
    IN  Lines(SelectSeq(Idx(Len(s)), LAMBDA i : s[i] = "\n"))

\* r'\$\$.*?\$\$'
DollarSpan == Lit(<<"$", "$">>) \o <<DotStarLazy>> \o Lit(<<"$", "$">>)

clean_text_for_summarization(text) ==
    LET \* repeat_count before word k is the number of words just before it
        \* that equal it; the word is dropped once that count reaches 3
        Kept(words, lower) ==
            Pick(words, SelectSeq(Idx(Len(words)),
                            LAMBDA k : ~(k > MaxRepeats
                                         /\ \A d \in 1..MaxRepeats : lower[k - d] = lower[k])))
        Words(words) == Join(Kept(words, [k \in 1..Len(words) |-> Lower(words[k])]), <<" ">>)
        Filtered(cleaned_text) ==
            Words(Split(SubRuns(cleaned_text, Range(cleaned_text) \ CleanChars)))
        Lines(lines) ==
            Filtered(Join(SelectSeq([k \in 1..Len(lines) |-> Strip(lines[k])],
                                    LAMBDA line : Len(line) > MinLineLen),
                          <<" ">>))
    IN  Lines(SplitLines(sub(SubRuns(text, WhiteSpace), DollarSpan, MathToken)))

\* the loop of split_text_into_chunks gone wrong: the sentence that does not
\* fit is lost
RECURSIVE ChunkLoopDropping(_, _, _, _)
ChunkLoopDropping(sentences, k, current_chunk, max_chunk_length) ==
    IF k > Len(sentences)
    THEN IF Len(Strip(current_chunk)) > 0 THEN <<Strip(current_chunk)>> ELSE <<>>
    ELSE
    LET Add(sentence) ==
            IF Len(sentence) = 0
            THEN ChunkLoopDropping(sentences, k + 1, current_chunk, max_chunk_length)
            ELSE IF Len(current_chunk) + Len(sentence) > max_chunk_length
                    /\ Len(current_chunk) > 0
            THEN <<Strip(current_chunk)>>
                    \o ChunkLoopDropping(sentences, k + 1, <<>>, max_chunk_length)
            ELSE ChunkLoopDropping(sentences, k + 1,
                                   IF Len(current_chunk) > 0
                                   THEN current_chunk \o SentenceSep \o sentence
                                   ELSE sentence,
                                   max_chunk_length)
    IN  Add(Strip(sentences[k]))

\* the loop of split_text_into_chunks over sentences[k..]: chunks closed so
\* far, then the last chunk
RECURSIVE ChunkLoop(_, _, _, _)
ChunkLoop(sentences, k, current_chunk, max_chunk_length) ==
    IF k > Len(sentences)
    THEN IF Len(Strip(current_chunk)) > 0 THEN <<Strip(current_chunk)>> ELSE <<>>
    ELSE
    LET Add(sentence) ==
            IF Len(sentence) = 0
            THEN ChunkLoop(sentences, k + 1, current_chunk, max_chunk_length)
            ELSE IF Len(current_chunk) + Len(sentence) > max_chunk_length
                    /\ Len(current_chunk) > 0
            THEN <<Strip(current_chunk)>>
                    \o ChunkLoop(sentences, k + 1, sentence, max_chunk_length)
            ELSE ChunkLoop(sentences, k + 1,
                           IF Len(current_chunk) > 0
                           THEN current_chunk \o SentenceSep \o sentence
                           ELSE sentence,
                           max_chunk_length)
    IN  Add(Strip(sentences[k]))

split_text_into_chunks(text, max_chunk_length) ==
    ChunkLoop(SplitOn(text, SentenceEnd), 1, <<>>, max_chunk_length)

importance_indicators ==
    <<<<<<"c","o","n","c","l","u","s","i","o","n">>, 15>>,
      <<<<"r","e","s","u","l","t">>, 12>>, <<<<"f","i","n","d","i","n","g">>, 12>>,
      <<<<"s","i","g","n","i","f","i","c","a","n","t">>, 10>>,
      <<<<"i","m","p","o","r","t","a","n","t">>, 10>>, <<<<"k","e","y">>, 8>>,
      <<<<"m","a","i","n">>, 8>>, <<<<"p","r","i","m","a","r","y">>, 8>>,
      <<<<"d","i","s","c","o","v","e","r","e","d">>, 10>>,
      <<<<"s","h","o","w","e","d">>, 8>>,
      <<<<"d","e","m","o","n","s","t","r","a","t","e","d">>, 8>>,
      <<<<"a","n","a","l","y","s","i","s">>, 6>>, <<<<"s","t","u","d","y">>, 6>>,
      <<<<"r","e","s","e","a","r","c","h">>, 6>>, <<<<"d","a","t","a">>, 5>>>>

\* r'\d+(?:\.\d+)?[%]?'
NumberPattern == <<Plus(Digits), Opt(<<Cls({"."}), Plus(Digits)>>), Rep({"%"}, 0, 1)>>
MonthNames ==
    Alt(<<Lit(<<"J","a","n","u","a","r","y">>),
                Lit(<<"F","e","b","r","u","a","r","y">>), Lit(<<"M","a","r","c","h">>),
                Lit(<<"A","p","r","i","l">>), Lit(<<"M","a","y">>),
                Lit(<<"J","u","n","e">>), Lit(<<"J","u","l","y">>),
                Lit(<<"A","u","g","u","s","t">>),
                Lit(<<"S","e","p","t","e","m","b","e","r">>),
                Lit(<<"O","c","t","o","b","e","r">>),
                Lit(<<"N","o","v","e","m","b","e","r">>),
                Lit(<<"D","e","c","e","m","b","e","r">>)>>)
MonthNamesI ==
    Alt(<<LitI(<<"J","a","n","u","a","r","y">>),
                LitI(<<"F","e","b","r","u","a","r","y">>),
                LitI(<<"M","a","r","c","h">>), LitI(<<"A","p","r","i","l">>),
                LitI(<<"M","a","y">>), LitI(<<"J","u","n","e">>),
                LitI(<<"J","u","l","y">>), LitI(<<"A","u","g","u","s","t">>),
                LitI(<<"S","e","p","t","e","m","b","e","r">>),
                LitI(<<"O","c","t","o","b","e","r">>),
                LitI(<<"N","o","v","e","m","b","e","r">>),
                LitI(<<"D","e","c","e","m","b","e","r">>)>>)
\* r'\b\d{4}\b|\b(?:January|...|December)\b'
YearOrMonthPattern ==
    <<Alt(<< <<WB, Rep(Digits, 4, 4), WB>>, <<WB, MonthNames, WB>> >>)>>

\* re.search(p, s) is not None
search(s, p) == \E j \in 1..(Len(s) + 1) : MatchAt(s, p, j) # NoMatch

RECURSIVE SumSeq(_, _)
SumSeq(f, k) == IF k = 0 THEN 0 ELSE f[k] + SumSeq(f, k - 1)

score_sentence_importance(sentence) ==
    LET Boost(sentence_lower) ==
            [k \in 1..Len(importance_indicators) |->
                IF Contains(sentence_lower, importance_indicators[k][1])
                THEN importance_indicators[k][2] ELSE 0]
    IN  WordCount(sentence) + SumSeq(Boost(Lower(sentence)), Len(importance_indicators))
            + (IF search(sentence, NumberPattern) THEN NumberBoost ELSE 0)
            + (IF search(sentence, YearOrMonthPattern) THEN DateBoost ELSE 0)

\* scored.sort(key=lambda x: x[0], reverse=True) on (score, sentence) pairs:
\* stable, higher score first
SortByScoreDesc(seq) ==
    LET n == Len(seq)
        rank == [i \in 1..n |->
                    Cardinality({j \in 1..n : \/ seq[j][1] > seq[i][1]
                                              \/ seq[j][1] = seq[i][1] /\ j < i}) + 1]
    IN  [k \in 1..n |-> seq[CHOOSE i \in 1..n : rank[i] = k]]

\* [s.strip() for s in re.split(r'[.!?]+', text)]
StrippedSentences(text) ==
    LET Stripped(sentences) == [k \in 1..Len(sentences) |-> Strip(sentences[k])]
    IN  Stripped(SplitOn(text, SentenceEnd))

\* the stripped sentences of text longer than min_len with more than min_words
\* words, most important first
RankedSentences(text, min_len, min_words) ==
    LET Scored(good) == [k \in 1..Len(good) |-> <<score_sentence_importance(good[k]), good[k]>>]
        Sentences(ranked) == [k \in 1..Len(ranked) |-> ranked[k][2]]
    IN  Sentences(SortByScoreDesc(Scored(
            SelectSeq(StrippedSentences(text),
                      LAMBDA x : Len(x) > min_len /\ WordCount(x) > min_words))))

extract_key_points(text, num_points) ==
    Take(RankedSentences(text, KeyPointMinLen, KeyPointMinWords), num_points)

BigUnits ==
    Alt(<<LitI(<<"m","i","l","l","i","o","n">>),
                LitI(<<"b","i","l","l","i","o","n">>),
                LitI(<<"t","h","o","u","s","a","n","d">>), LitI(<<"M">>),
                LitI(<<"B">>), LitI(<<"K">>)>>)
MeasureUnits ==
    Alt(<<LitI(<<"k","g">>), LitI(<<"g">>), LitI(<<"l","b">>),
                LitI(<<"t","o","n">>), LitI(<<"m","e","t","e","r">>), LitI(<<"m">>),
                LitI(<<"k","m">>), LitI(<<"f","t">>), LitI(<<"i","n","c","h">>),
                LitI(<<"c","m">>), LitI(<<"m","m">>)>>)
RangeWords ==
    Alt(<<LitI(<<"f","r","o","m">>), LitI(<<"b","e","t","w","e","e","n">>),
                LitI(<<"d","u","r","i","n","g">>)>>)
RangeLinks ==
    Alt(<<LitI(<<"t","o">>), LitI(<<"a","n","d">>), LitI(<<"-">>)>>)
Thousands == Many(<<Cls({","}), Rep(Digits, 3, 3)>>)
Decimals == Opt(<<Cls({"."}), Plus(Digits)>>)

\* number_patterns of extract_facts_and_figures, used with re.IGNORECASE
number_patterns ==
    << <<WB, Plus(Digits), Decimals, Cls({"%"}), WB>>,
       <<WB, Plus(Digits), Thousands, Decimals, Star(WhiteSpace), BigUnits, WB>>,
       <<Cls({"$"}), Plus(Digits), Thousands, Decimals,
         Opt(<<Star(WhiteSpace), BigUnits>>), WB>>,
       <<WB, Rep(Digits, 4, 4), WB>>,
       <<WB, Plus(Digits), Decimals, Star(WhiteSpace), MeasureUnits, WB>> >>

\* date_patterns of extract_facts_and_figures, used with re.IGNORECASE
date_patterns ==
    << <<WB, MonthNamesI, Plus(WhiteSpace), Rep(Digits, 1, 2), Rep({","}, 0, 1),
         Plus(WhiteSpace), Rep(Digits, 4, 4), WB>>,
       <<WB, Rep(Digits, 1, 2), Cls({"-", "/"}), Rep(Digits, 1, 2), Cls({"-", "/"}),
         Rep(Digits, 2, 4), WB>>,
       <<WB, RangeWords, Plus(WhiteSpace), Rep(Digits, 4, 4), Star(WhiteSpace),
         RangeLinks, Star(WhiteSpace), Rep(Digits, 4, 4), WB>> >>

\* the context of one match: the window around text.find(match), stripped and
\* whitespace-normalized
FactContext(text, match, window) ==
    LET Around(match_pos) ==
            NormalizeSpace(Slice(text, Max(0, match_pos - window),
                                 Min(Len(text), match_pos + Len(match) + window)))
    IN  Around(Find(text, match) - 1)

\* the contexts of the matches of a pattern family that are long enough
FamilyFacts(text, family, window, min_len) ==
    Concat([k \in 1..Len(family) |->
        LET Contexts(matches) ==
                SelectSeq([j \in 1..Len(matches) |-> FactContext(text, matches[j], window)],
                          LAMBDA c : Len(c) > min_len)
        IN  Contexts(findall(text, family[k]))])

\* extract_facts_and_figures gone wrong: every fact is returned
extract_facts_and_figures_uncapped(text) ==
    Dedup(FamilyFacts(text, number_patterns, NumberWindow, NumberMinLen)
            \o FamilyFacts(text, date_patterns, DateWindow, DateMinLen))

extract_facts_and_figures(text) ==
    Take(Dedup(FamilyFacts(text, number_patterns, NumberWindow, NumberMinLen)
                 \o FamilyFacts(text, date_patterns, DateWindow, DateMinLen)),
         MaxFacts)

\* s[:k], also for k < 0
Prefix(s, k) == IF k >= 0 THEN Take(s, k) ELSE SubSeq(s, 1, Len(s) + k)

\* create_comprehensive_summary gone wrong: the summary joined with the key
\* points is returned without the second look at its length
create_comprehensive_summary_unclamped(summaries, key_points, facts, max_length) ==
    LET Cut(s) == Prefix(s, max_length - 3) \o Ellipsis
        Combined(result_parts, combined) ==
            IF Len(combined) > max_length
            THEN IF Len(result_parts) > 1
                 THEN IF Len(result_parts[1]) + Len(result_parts[2]) < max_length
                      THEN result_parts[1] \o PartSep \o result_parts[2]
                      ELSE IF Len(result_parts[1]) > max_length
                           THEN Cut(result_parts[1])
                           ELSE result_parts[1]
                 ELSE Cut(combined)
            ELSE combined
        Parts(result_parts) == Combined(result_parts, Join(result_parts, PartSep))
        Main(main_content) ==
            Parts((IF Len(main_content) > 0 THEN <<SummaryPrefix \o main_content>> ELSE <<>>)
                  \o (IF Len(key_points) > 0
                      THEN <<KeyPointsPrefix \o Join(Take(key_points, TopKeyPoints), ItemSep)>>
                      ELSE <<>>)
                  \o (IF Len(facts) > 0
                      THEN <<FactsPrefix \o Join(Take(facts, TopFacts), ItemSep)>>
                      ELSE <<>>))
    IN  Main(Strip(Join(summaries, <<" ">>)))

create_comprehensive_summary(summaries, key_points, facts, max_length) ==
    LET Cut(s) == Prefix(s, max_length - 3) \o Ellipsis
        Shortened(shortened) ==
            IF Len(shortened) > max_length THEN Cut(shortened) ELSE shortened
        Combined(result_parts, combined) ==
            IF Len(combined) > max_length
            THEN IF Len(result_parts) > 1
                 THEN Shortened(IF Len(result_parts[1]) + Len(result_parts[2]) < max_length
                                THEN result_parts[1] \o PartSep \o result_parts[2]
                                ELSE result_parts[1])
                 ELSE Cut(combined)
            ELSE combined
        Parts(result_parts) == Combined(result_parts, Join(result_parts, PartSep))
        Main(main_content) ==
            Parts((IF Len(main_content) > 0 THEN <<SummaryPrefix \o main_content>> ELSE <<>>)
                  \o (IF Len(key_points) > 0
                      THEN <<KeyPointsPrefix \o Join(Take(key_points, TopKeyPoints), ItemSep)>>
                      ELSE <<>>)
                  \o (IF Len(facts) > 0
                      THEN <<FactsPrefix \o Join(Take(facts, TopFacts), ItemSep)>>
                      ELSE <<>>))
    IN  Main(Strip(Join(summaries, <<" ">>)))

\* the values of max_length below 1000 for which the float max_length * 0.7 is
\* below seven tenths of max_length
RoundsDown ==
    {90, 170, 180, 330, 340, 350, 360, 650, 660, 670, 680, 690, 700, 710, 720, 730}

\* length > max_length * 0.7
OverSeventyPercent(length, max_length) ==
    \/ 10 * length > 7 * max_length
    \/ 10 * length = 7 * max_length /\ max_length \in RoundsDown

\* the loop over facts of the fallback: the facts added from facts[k..] on
RECURSIVE FactsToAdd(_, _, _, _)
FactsToAdd(facts, k, facts_length, available_space) ==
    IF k > Len(facts) THEN <<>>
    ELSE IF facts_length + Len(facts[k]) < available_space
    THEN <<facts[k]>> \o FactsToAdd(facts, k + 1, facts_length + Len(facts[k]),
                                    available_space)
    ELSE FactsToAdd(facts, k + 1, facts_length, available_space)

_comprehensive_fallback_summary(text, max_length) ==
    LET Qualifies(x) == Len(x) > FallbackMinLen /\ WordCount(x) > FallbackMinWords
        \* clean_sentences[0]: the first qualifying sentence in text order
        FirstClean(stripped) ==
            stripped[CHOOSE k \in 1..Len(stripped) :
                        /\ Qualifies(stripped[k])
                        /\ \A j \in 1..(k - 1) : ~Qualifies(stripped[j])]
        FactsText(facts, facts_to_add) ==
            IF Len(facts) > 0 /\ Len(facts_to_add) > 0
            THEN FallbackFactsPrefix \o Join(Take(facts_to_add, FallbackMaxFacts), ItemSep)
            ELSE <<>>
        WithFacts(facts, available_space) ==
            FactsText(facts, FactsToAdd(facts, 1, 0, available_space))
        Summary(summary_sentences, current_length) ==
            IF Len(summary_sentences) > 0
            THEN Join(summary_sentences, SentenceSep) \o <<".">>
                    \o WithFacts(extract_facts_and_figures(text),
                                 max_length - current_length - FallbackBuffer)
            ELSE Prefix(FirstClean(StrippedSentences(text)), max_length - 3) \o Ellipsis
        Taken(ranked, total, taken) == Summary(Take(ranked, taken), total[taken])
        \* the loop breaks at the first sentence that would pass 70%
        Totals(ranked, total) ==
            Taken(ranked, total,
                  Cardinality({k \in 1..Len(ranked) :
                      \A j \in 1..k : ~OverSeventyPercent(total[j], max_length)}))
        Lengths(ranked, lens) == Totals(ranked, [k \in 0..Len(ranked) |-> SumSeq(lens, k)])
        Ranked(ranked) ==
            IF Len(ranked) = 0 THEN Unable
            ELSE Lengths(ranked, [k \in 1..Len(ranked) |-> Len(ranked[k])])
    IN  Ranked(RankedSentences(text, FallbackMinLen, FallbackMinWords))

\* the calls of self.summarizer that generate_summary makes for a text when
\* the model is loaded: none (too short), one (direct), or one per chunk of
\* chunks[:6] with at least 20 words
SummarizerCalls(text, max_length, min_length) ==
    LET Called(chunks, called) ==
            [j \in 1..Len(called) |->
                [text |-> chunks[called[j]],
                 max_length |-> Min(ChunkMaxLength, max_length \div Max(Len(chunks), 1)),
                 min_length |-> Min(ChunkMinLength, min_length \div Max(Len(chunks), 1))]]
        Chunks(chunks) ==
            Called(chunks, SelectSeq(Idx(Min(Len(chunks), MaxChunks)),
                                     LAMBDA i : WordCount(chunks[i]) >= MinChunkWords))
        Calls(cleaned_text) ==
            IF WordCount(cleaned_text) < MinWords THEN <<>>
            ELSE IF Len(cleaned_text) > DirectLimit
            THEN Chunks(split_text_into_chunks(cleaned_text, ChunkLimit))
            ELSE << [text |-> cleaned_text,
                     max_length |-> max_length - DirectReserve,
                     min_length |-> Max(min_length - DirectMinReserve, DirectMinFloor)] >>
    IN  Calls(clean_text_for_summarization(text))

\* the loop of generate_summary gone wrong: a call that raised is counted too
EveryCall(calls, responses) == Idx(Len(calls))

\* the calls of the chunk loop that reached chunk_summaries.append: a call that
\* raises is left by `continue`, and the loop goes on with the next chunk
Summarized(calls, responses) == SelectSeq(Idx(Len(calls)), LAMBDA j : responses[j].ok)

\* generate_summary gone wrong: the fallback is given the cleaned text
generate_summary_of_cleaned_text(model_loaded, text, max_length, min_length, responses) ==
    LET Combine(summaries, key_points, facts) ==
            create_comprehensive_summary(summaries, key_points, facts, max_length)
        Chunked(calls, done, key_points, fallback) ==
            IF Len(done) > 0
            THEN Combine([k \in 1..Len(done) |-> responses[done[k]].summary_text],
                         key_points,
                         Concat([k \in 1..Len(done) |->
                                    extract_facts_and_figures(calls[done[k]].text)]))
            ELSE fallback
        Loaded(cleaned_text, calls, key_points, fallback) ==
            IF WordCount(cleaned_text) < MinWords
            THEN [summary |-> TooShort, calls |-> <<>>]
            ELSE [summary |->
                     IF Len(cleaned_text) > DirectLimit
                     THEN Chunked(calls, Summarized(calls, responses), key_points, fallback)
                     ELSE IF responses[1].ok
                     THEN Combine(<<responses[1].summary_text>>, key_points,
                                  extract_facts_and_figures(text))
                     ELSE fallback,
                  calls |-> calls]
        Run(fallback) ==
            IF ~model_loaded
            THEN [summary |-> fallback, calls |-> <<>>]
            ELSE Loaded(clean_text_for_summarization(text),
                        SummarizerCalls(text, max_length, min_length),
                        extract_key_points(text, NumKeyPoints), fallback)
    IN  Run(_comprehensive_fallback_summary(clean_text_for_summarization(text), max_length))

\* generate_summary; responses[j] is the outcome of the j-th call of
\* self.summarizer.  The result is the returned str and the calls made.
generate_summary(model_loaded, text, max_length, min_length, responses) ==
    LET Combine(summaries, key_points, facts) ==
            create_comprehensive_summary(summaries, key_points, facts, max_length)
        Chunked(calls, done, key_points, fallback) ==
            IF Len(done) > 0
            THEN Combine([k \in 1..Len(done) |-> responses[done[k]].summary_text],
                         key_points,
                         Concat([k \in 1..Len(done) |->
                                    extract_facts_and_figures(calls[done[k]].text)]))
            ELSE fallback
        Loaded(cleaned_text, calls, key_points, fallback) ==
            IF WordCount(cleaned_text) < MinWords
            THEN [summary |-> TooShort, calls |-> <<>>]
            ELSE [summary |->
                     IF Len(cleaned_text) > DirectLimit
                     THEN Chunked(calls, Summarized(calls, responses), key_points, fallback)
                     ELSE IF responses[1].ok
                     THEN Combine(<<responses[1].summary_text>>, key_points,
                                  extract_facts_and_figures(text))
                     ELSE fallback,
                  calls |-> calls]
        Run(fallback) ==
            IF ~model_loaded
            THEN [summary |-> fallback, calls |-> <<>>]
            ELSE Loaded(clean_text_for_summarization(text),
                        SummarizerCalls(text, max_length, min_length),
                        extract_key_points(text, NumKeyPoints), fallback)
    IN  Run(_comprehensive_fallback_summary(text, max_length))

(***************************************************************************)
(* modules/pdf_processor.py.  The parsers (fitz, pdfplumber) and the OCR   *)
(* reader are collaborators.  A page is what they answer for it:           *)
(*   text    pdf_page.get_text()                                           *)
(*   tables  plumber_page.extract_tables(): [ok |-> TRUE, value |-> ...],  *)
(*           or [ok |-> FALSE] when it raises; a table is a sequence of    *)
(*           rows, a row a sequence of cells [null, str] (None or a str)   *)
(*   images  one [ok, ocr_text] per image of pdf_page.get_images(): ok is  *)
(*           FALSE when fitz.Pixmap raises, ocr_text what ocr_image        *)
(*           returns ("" when the reader raises)                           *)
(* A file is [ok |-> TRUE, pages |-> ...], or [ok |-> FALSE, err |-> ...]  *)
(* when a parser raises on it.                                             *)
(***************************************************************************)
InlineMathChars == AsciiAlnum \cup WhiteSpace \cup {"^", "=", "+", "-", "*", "/"}
math_pattern == <<GS, Plus(InlineMathChars), Cls({"="}), Plus(InlineMathChars), GE>>
MathOpen == <<"$", "$", " ">>
MathClose == <<" ", "$", "$">>
FormulaSymbols == {"=", "U+2211", "π", "+", "U+2212", "^", "/", "*"}
MinPageText == 50
CellSep == <<" ", "|", " ">>
PageSep == <<"\n", "\n">>
PdfError ==
    <<"E", "r", "r", "o", "r", " ", "e", "x", "t", "r", "a", "c", "t", "i", "n", "g",
      " ", "t", "e", "x", "t", " ", "f", "r", "o", "m", " ", "P", "D", "F", ":", " ">>

\* the loop of preserve_inline_math from the k-th match on
RECURSIVE ReplaceMatches(_, _, _)
ReplaceMatches(text, matches, k) ==
    IF k > Len(matches) THEN text
    ELSE ReplaceMatches(sub(text, Lit(matches[k]), MathOpen \o Strip(matches[k]) \o MathClose),
                        matches, k + 1)

preserve_inline_math(text) == ReplaceMatches(text, findall1(text, math_pattern), 1)

\* detect_content_types gone wrong: an image that cannot be read ends the loop
\* over the images
detect_content_types_aborting(page) ==
    [has_text |-> Len(Strip(page.text)) > MinPageText,
     has_table |-> page.tables.ok /\ Len(page.tables.value) > 0
                       /\ Len(page.tables.value[1]) > 0,
     has_image |-> Len(page.images) > 0,
     has_formula |-> \E k \in 1..Len(page.images) :
                         /\ \A j \in 1..k : page.images[j].ok
                         /\ \E i \in 1..Len(page.images[k].ocr_text) :
                                page.images[k].ocr_text[i] \in FormulaSymbols]

detect_content_types(page) ==
    [has_text |-> Len(Strip(page.text)) > MinPageText,
     has_table |-> page.tables.ok /\ Len(page.tables.value) > 0
                       /\ Len(page.tables.value[1]) > 0,
     has_image |-> Len(page.images) > 0,
     has_formula |-> \E k \in 1..Len(page.images) :
                         /\ page.images[k].ok
                         /\ \E i \in 1..Len(page.images[k].ocr_text) :
                                page.images[k].ocr_text[i] \in FormulaSymbols]

process_page(page) ==
    LET Content(types) ==
            [content_type |-> types,
             text |-> IF types.has_text THEN preserve_inline_math(page.text) ELSE <<>>,
             tables |-> IF types.has_table THEN page.tables.value ELSE <<>>,
             images |-> LET Done(imgs) == [k \in 1..Len(imgs) |-> [ocr_text |-> imgs[k].ocr_text]]
                        IN  Done(SelectSeq(page.images, LAMBDA img : img.ok))]
    IN  Content(detect_content_types(page))

\* the loop over page_data['images'] gone wrong: the blank OCR texts are added too
RECURSIVE AddEveryOcrText(_, _, _)
AddEveryOcrText(images, k, page_text) ==
    IF k > Len(images) THEN page_text
    ELSE AddEveryOcrText(images, k + 1, page_text \o <<"\n">> \o images[k].ocr_text)

\* the loop over page_data['images'] from the k-th image on
RECURSIVE AddOcrText(_, _, _)
AddOcrText(images, k, page_text) ==
    IF k > Len(images) THEN page_text
    ELSE AddOcrText(images, k + 1,
                    IF Len(Strip(images[k].ocr_text)) > 0
                    THEN page_text \o <<"\n">> \o images[k].ocr_text
                    ELSE page_text)

\* " | ".join([str(cell) if cell else "" for cell in row])
table_text(row) ==
    Join([c \in 1..Len(row) |-> IF row[c].null THEN <<>> ELSE row[c].str], CellSep)

\* the loop over the rows of one table from the r-th row on
RECURSIVE AddRows(_, _, _)
AddRows(table, r, page_text) ==
    IF r > Len(table) THEN page_text
    ELSE AddRows(table, r + 1,
                 IF Len(table[r]) > 0 THEN page_text \o <<"\n">> \o table_text(table[r])
                 ELSE page_text)

\* the loop over page_data['tables'] from the k-th table on
RECURSIVE AddTableText(_, _, _)
AddTableText(tables, k, page_text) ==
    IF k > Len(tables) THEN page_text
    ELSE AddTableText(tables, k + 1, AddRows(tables[k], 1, page_text))

\* page_text of extract_text for one page_data
PageText(page_data) ==
    AddTableText(page_data.tables, 1, AddOcrText(page_data.images, 1, page_data.text))

extract_text(file) ==
    IF ~file.ok THEN [ok |-> FALSE, err |-> PdfError \o file.err]
    ELSE LET Collected(all_pages_data) ==
                 [ok |-> TRUE,
                  text |-> Join([i \in 1..Len(all_pages_data) |-> PageText(all_pages_data[i])],
                                PageSep),
                  page_count |-> Len(file.pages),
                  pages_data |-> all_pages_data]
         IN  Collected([i \in 1..Len(file.pages) |-> process_page(file.pages[i])])

(***************************************************************************)
(* main.py: analyze_document.  services holds the processors that the      *)
(* module-level construction has built.  A call of a processor that raises *)
(* is an input: raised names the features whose call raises str(e) =       *)
(* Raised.  A response is [status |-> 200, ...] with the fields of          *)
(* AnalysisResponse, or [status, detail] of the HTTPException.             *)
(***************************************************************************)
Services == {"pdf_extractor", "math_extractor", "ner_processor", "summarizer"}
Features == {"math", "ner", "summary"}
Raised == <<"E", "2">>
SummaryMaxLength == 400
SummaryMinLength == 150
BadRequest == 400
ServerError == 500
Success == 200
OnlyPdf ==
    <<"O", "n", "l", "y", " ", "P", "D", "F", " ", "f", "i", "l", "e", "s", " ", "a",
      "r", "e", " ", "s", "u", "p", "p", "o", "r", "t", "e", "d">>
PdfNotAvailable ==
    <<"P", "D", "F", " ", "e", "x", "t", "r", "a", "c", "t", "i", "o", "n", " ", "s",
      "e", "r", "v", "i", "c", "e", " ", "i", "s", " ", "n", "o", "t", " ", "a", "v",
      "a", "i", "l", "a", "b", "l", "e">>
NoTextFound ==
    <<"N", "o", " ", "t", "e", "x", "t", " ", "f", "o", "u", "n", "d", " ", "i", "n",
      " ", "t", "h", "e", " ", "P", "D", "F">>
ProcessingError ==
    <<"E", "r", "r", "o", "r", " ", "p", "r", "o", "c", "e", "s", "s", "i", "n", "g",
      " ", "d", "o", "c", "u", "m", "e", "n", "t", ":", " ">>
MathError ==
    <<"M", "a", "t", "h", " ", "e", "x", "t", "r", "a", "c", "t", "i", "o", "n", " ",
      "e", "r", "r", "o", "r", ":", " ">>
MathNotAvailable ==
    <<"M", "a", "t", "h", " ", "e", "x", "t", "r", "a", "c", "t", "i", "o", "n", " ",
      "s", "e", "r", "v", "i", "c", "e", " ", "n", "o", "t", " ", "a", "v", "a", "i",
      "l", "a", "b", "l", "e">>
NerError ==
    <<"N", "E", "R", " ", "e", "x", "t", "r", "a", "c", "t", "i", "o", "n", " ", "e",
      "r", "r", "o", "r", ":", " ">>
NerNotAvailable ==
    <<"N", "E", "R", " ", "s", "e", "r", "v", "i", "c", "e", " ", "n", "o", "t", " ",
      "a", "v", "a", "i", "l", "a", "b", "l", "e">>
SummaryError ==
    <<"S", "u", "m", "m", "a", "r", "i", "z", "a", "t", "i", "o", "n", " ", "e", "r",
      "r", "o", "r", ":", " ">>
SummaryNotAvailable ==
    <<"S", "u", "m", "m", "a", "r", "i", "z", "a", "t", "i", "o", "n", " ", "s", "e",
      "r", "v", "i", "c", "e", " ", "n", "o", "t", " ", "a", "v", "a", "i", "l", "a",
      "b", "l", "e">>

\* an "error" entry of named_entities
ErrorEntry(message) == [l \in {"error"} |-> <<message>>]

\* analyze_document.  extracted is what pdf_extractor.extract_text answers for
\* the file, answer what the tagger answers for the text, responses what the
\* summarization model answers call by call.
analyze_document(upload, srv, seed, has_nlp, loaded, answer, responses, raised) ==
    IF ~upload.is_pdf THEN [status |-> BadRequest, detail |-> OnlyPdf]
    ELSE IF "pdf_extractor" \notin srv
    THEN [status |-> ServerError, detail |-> PdfNotAvailable]
    ELSE
    LET Analysed(text_content, page_count) ==
            IF Len(Strip(text_content)) = 0
            THEN [status |-> BadRequest, detail |-> NoTextFound]
            ELSE [status |-> Success,
                  text_content |-> text_content,
                  highlighted_text |->
                      IF "ner_processor" \in srv /\ "ner" \notin raised
                      THEN highlight_entities_in_text(has_nlp, answer)
                      ELSE text_content,
                  math_expressions |->
                      IF "math_extractor" \notin srv THEN <<MathNotAvailable>>
                      ELSE IF "math" \in raised THEN <<MathError \o Raised>>
                      ELSE extract_expressions(text_content, seed),
                  named_entities |->
                      IF "ner_processor" \notin srv THEN ErrorEntry(NerNotAvailable)
                      ELSE IF "ner" \in raised THEN ErrorEntry(NerError \o Raised)
                      ELSE extract_entities(has_nlp, answer),
                  summary |->
                      IF "summarizer" \notin srv THEN SummaryNotAvailable
                      ELSE IF "summary" \in raised THEN SummaryError \o Raised
                      ELSE generate_summary(loaded, text_content, SummaryMaxLength,
                                            SummaryMinLength, responses).summary,
                  page_count |-> page_count,
                  word_count |-> WordCount(text_content)]
        Extracted(extracted_data) ==
            IF ~extracted_data.ok
            THEN [status |-> ServerError, detail |-> ProcessingError \o extracted_data.err]
            ELSE Analysed(extracted_data.text, extracted_data.page_count)
    IN  Extracted(extract_text(upload.file))

(***************************************************************************)
(* The inputs.  Texts are built from pieces; the tagger's and the          *)
(* summarization model's answers are drawn from small sets.                *)
(***************************************************************************)
MaxPieces == 2
MaxRot == 1
MaxSpans == 3
MaxHead == 2
MaxTail == 1
MaxItems == 2
MaxParts == 3
MaxCalls == 2

\* the sequences of at most n elements of S
SeqsUpTo(S, n) == UNION {[1..k -> S] : k \in 0..n}

RECURSIVE Repeat(_, _)
Repeat(s, n) == IF n = 0 THEN <<>> ELSE s \o Repeat(s, n - 1)

MathPieces ==
    {<<"E"," ","="," ","m","c","^","2">>,
     <<"."," ">>,
     <<"$","$">>,
     <<" ","x"," ","+"," ","y"," ","="," ","z"," ">>,
     <<"1","/","2"," ">>,
     <<"1","/","3"," ">>,
     <<"p","a","g","e"," ">>}

EinsteinText ==
    <<"E", " ", "=", " ", "m", "c", "^", "2", ".", " ", "E", " ", "=", " ", "m", "c",
      "^", "2", ".">>
DelimitedText ==
    <<"$", "$", " ", "x", " ", "+", " ", "y", " ", "=", " ", "z", " ", "$", "$">>
FunctionText == <<"s", "i", "n", "(", "x", " ", "+", " ", "1", ")">>
ProseText ==
    <<"N", "o", "t", "h", "i", "n", "g", " ", "t", "o", " ", "c", "o", "m", "p", "u",
      "t", "e", " ", "h", "e", "r", "e", ",", " ", "s", "e", "e", " ", "p", "a", "g",
      "e", " ", "4", ".">>

DigitSeq == <<"0","1","2","3","4","5","6","7","8","9">>
\* "1/10,1/11,...": n different fractions
ManyFractions(n) ==
    Join([k \in 1..n |-> <<"1", "/", DigitSeq[((k + 9) \div 10) + 1], DigitSeq[((k + 9) % 10) + 1]>>],
         <<",">>)

MathTexts ==
    {Concat(ps) : ps \in SeqsUpTo(MathPieces, MaxPieces)}
        \cup {EinsteinText, DelimitedText, ProseText, FunctionText}
        \cup {ManyFractions(MaxFormulas + 1), ManyFractions(MaxExpressions),
              ManyFractions(MaxExpressions + 1)}

HashSeeds == BOOLEAN \X (0..MaxRot)

EntityPool ==
    {[text |-> <<"P","a","r","i","s">>, label |-> "GPE"],
     [text |-> <<"P","A","R","I","S">>, label |-> "GPE"],
     [text |-> <<"P","a","r","i","s">>, label |-> "PERSON"],
     [text |-> <<"t","h","e">>, label |-> "GPE"],
     [text |-> <<"1","2">>, label |-> "DATE"],
     [text |-> <<"I","B","M">>, label |-> "ORG"],
     [text |-> <<"h","e">>, label |-> "PERSON"],
     [text |-> <<"A","l"," ","G","o","r","e">>, label |-> "PERSON"],
     [text |-> <<"n","o","w">>, label |-> "DATE"],
     [text |-> <<"N","e","w","\n"," ","Y","o","r","k">>, label |-> "GPE"],
     [text |-> <<"A","B">>, label |-> "ORG"],
     [text |-> <<"Z","e","d">>, label |-> "LOC"]}

\* a document in which the given entities follow each other, and the spans the
\* tagger reports for it
DocOf(items) ==
    LET Spans(start) ==
            [k \in 1..Len(items) |->
                [start |-> start[k], end |-> start[k] + Len(items[k].text),
                 text |-> items[k].text, label |-> items[k].label]]
    IN  [ok |-> TRUE,
         text |-> Join([k \in 1..Len(items) |-> items[k].text], <<" ">>),
         ents |-> Spans([k \in 1..Len(items) |->
                           SumSeq([j \in 1..Len(items) |-> Len(items[j].text) + 1], k - 1)])]

NameLetters == <<"g", "f", "d", "c", "b">>
\* n different two-letter place names, not in ascending order
ManyEntities(n) ==
    [k \in 1..n |-> [text |-> <<NameLetters[((k - 1) \div 5) + 1], NameLetters[((k - 1) % 5) + 1]>>,
                     label |-> "GPE"]]

TaggerError == <<"E", "1">>

\* "Paris is great" with the spans (0, 5, "Paris", "GPE") and (9, 14, "great", "X")
ParisIsGreat ==
    [ok |-> TRUE,
     text |-> <<"P","a","r","i","s"," ","i","s"," ","g","r","e","a","t">>,
     ents |-> <<[start |-> 0, end |-> 5, text |-> <<"P","a","r","i","s">>, label |-> "GPE"],
                [start |-> 9, end |-> 14, text |-> <<"g","r","e","a","t">>, label |-> "X"]>>]

\* "Paris is great" with the span (0, 5, "Paris", "GPE")
ParisIsGreatOneSpan == [ParisIsGreat EXCEPT !.ents = <<ParisIsGreat.ents[1]>>]

\* "New York City" with the overlapping spans (0, 8, "New York", "GPE") and
\* (4, 13, "York City", "GPE")
NewYorkCity ==
    [ok |-> TRUE,
     text |-> <<"N","e","w"," ","Y","o","r","k"," ","C","i","t","y">>,
     ents |-> <<[start |-> 0, end |-> 8,
                 text |-> <<"N","e","w"," ","Y","o","r","k">>, label |-> "GPE"],
                [start |-> 4, end |-> 13,
                 text |-> <<"Y","o","r","k"," ","C","i","t","y">>, label |-> "GPE"]>>]

\* "New York City" with the span (4, 8, "York", "GPE") nested in the span
\* (0, 13, "New York City", "GPE")
NewYorkCityNested ==
    [ok |-> TRUE,
     text |-> NewYorkCity.text,
     ents |-> <<[start |-> 4, end |-> 8,
                 text |-> <<"Y","o","r","k">>, label |-> "GPE"],
                [start |-> 0, end |-> 13,
                 text |-> NewYorkCity.text, label |-> "GPE"]>>]

Docs ==
    {DocOf(items) : items \in SeqsUpTo(EntityPool, MaxSpans)}
        \cup {DocOf(ManyEntities(MaxEntities)), DocOf(ManyEntities(MaxEntities + 2))}
        \cup {ParisIsGreat, ParisIsGreatOneSpan, NewYorkCity, NewYorkCityNested}
        \cup {[ok |-> FALSE, text |-> ParisIsGreat.text, err |-> TaggerError]}

SentenceA ==
    <<"T", "h", "e", " ", "s", "t", "u", "d", "y", " ", "s", "h", "o", "w", "e", "d",
      " ", "i", "m", "p", "o", "r", "t", "a", "n", "t", " ", "r", "e", "s", "u", "l",
      "t", "s", " ", "i", "n", " ", "2", "0", "2", "0", ".", " ">>
SentenceB ==
    <<"S", "a", "l", "e", "s", " ", "r", "o", "s", "e", " ", "t", "o", " ", "$", "5",
      " ", "m", "i", "l", "l", "i", "o", "n", " ", "o", "n", " ", "M", "a", "y", " ",
      "5", ",", " ", "2", "0", "2", "1", ".", " ">>
SentenceC ==
    <<"W", "e", " ", "m", "e", "t", " ", "o", "n", " ", "1", "2", "/", "0", "5", "/",
      "2", "0", "1", "9", " ", "a", "n", "d", " ", "i", "t", " ", "w", "e", "n", "t",
      " ", "w", "e", "l", "l", ".", " ">>
SentenceD ==
    <<"G", "o", " ", "n", "o", "w", "!", " ">>
WordsE ==
    <<"o", "n", "e", " ", "t", "w", "o", " ", "t", "h", "r", "e", "e", " ", "f", "o",
      "u", "r", " ", "f", "i", "v", "e", " ">>
ShortSummary ==
    <<"S", "a", "l", "e", "s", " ", "r", "o", "s", "e", ".">>
LongSummary ==
    <<"T", "h", "e", " ", "s", "t", "u", "d", "y", " ", "s", "h", "o", "w", "e", "d",
      " ", "i", "m", "p", "o", "r", "t", "a", "n", "t", " ", "r", "e", "s", "u", "l",
      "t", "s", " ", "a", "n", "d", " ", "s", "a", "l", "e", "s", " ", "r", "o", "s",
      "e", " ", "t", "o", " ", "a", " ", "n", "e", "w", " ", "h", "i", "g", "h", ",",
      " ", "t", "h", "e", " ", "a", "u", "t", "h", "o", "r", "s", " ", "s", "a", "y",
      " ", "i", "n", " ", "t", "h", "e", " ", "r", "e", "p", "o", "r", "t", ".">>

LongWord ==
    <<"a", "b", "c", "d", "e", "f", "g", "h", "i", "j", "k", "l", "m", "n", "o", "p", "q",
      "r", "s", "t", "u">>

SummaryPieces == {SentenceA, SentenceB, SentenceC, SentenceD, WordsE}

\* five sentences with a money amount and a date, then one with a numeric
\* date; more than 50 words
BudgetText == Repeat(SentenceB, 5) \o SentenceC
\* more than 50 words in less than 900 characters
DirectText == Repeat(SentenceA, 8) \o SentenceB
\* more than 900 characters
ChunkedText == Repeat(SentenceA, 12) \o Repeat(SentenceC, 12)

\* fifty words in sentences of two words: no key point and no fact
CommandsText == Repeat(SentenceD, 25)

SummaryTexts ==
    {Repeat(a, n) \o Repeat(b, m) :
        a \in SummaryPieces, b \in SummaryPieces, n \in 0..MaxHead, m \in 0..MaxTail}
        \cup {BudgetText, DirectText, ChunkedText, CommandsText}

\* <<max_length, min_length>>: small budgets, the defaults of generate_summary
\* and the values analyze_document passes
Budgets == {<<10, 5>>, <<50, 30>>, <<300, 100>>, <<400, 150>>}

\* a sentence of 21 words and more than 400 characters that tells a year
YearSentence(k) ==
    <<"I", "n", " ", "2", "0", "1", DigitSeq[k + 1], " ">>
        \o Repeat(LongWord \o <<" ">> \o Tail(LongWord) \o <<" ">>, 10) \o <<".", " ">>
\* a sentence of 11 words and more than 400 characters
FewWordsSentence ==
    <<"I", "n", " ">>
        \o Repeat(LongWord \o LongWord \o <<" ">> \o Tail(LongWord) \o LongWord \o <<" ">>, 5)
        \o <<".", " ">>
\* seven chunks of one sentence each, the second with less than 20 words
ManyChunksText ==
    YearSentence(1) \o FewWordsSentence
        \o Concat([k \in 1..(MaxChunks - 1) |-> YearSentence(k + 2)])
\* a budget under which nothing is cut
LongRequest == [text |-> ManyChunksText, max_length |-> 3000, min_length |-> 150]

Requests ==
    {[text |-> t, max_length |-> b[1], min_length |-> b[2]] : t \in SummaryTexts, b \in Budgets}
        \cup {LongRequest}

Responses ==
    {[ok |-> FALSE, summary_text |-> <<>>], [ok |-> TRUE, summary_text |-> <<>>],
     [ok |-> TRUE, summary_text |-> ShortSummary], [ok |-> TRUE, summary_text |-> LongSummary]}

\* the calls a process gets after its first: a text without a qualifying
\* sentence, one for the direct path and one for the chunked path
LaterRequests ==
    {[text |-> t, max_length |-> 300, min_length |-> 100] :
        t \in {SentenceD, DirectText, ChunkedText}}

\* what self.summarizer does during one generate_summary, call by call: every
\* choice for one or two calls; for more, a short summary each time but for
\* one call that raises, or every call raises
ResponseRuns(n) ==
    IF n <= MaxItems THEN [1..n -> Responses]
    ELSE {[j \in 1..n |-> IF j = k THEN [ok |-> FALSE, summary_text |-> <<>>]
                                   ELSE [ok |-> TRUE, summary_text |-> ShortSummary]] :
             k \in 0..n}
         \cup {[j \in 1..n |-> [ok |-> FALSE, summary_text |-> <<>>]]}

\* the pieces of the texts given to split_text_into_chunks: sentences of 5, 10,
\* 1 and 2 characters with their terminators, and a blank
ChunkPieces ==
    { <<"A", "b", " ", "c", "d", ".", " ">>,
      <<"E", "f", "g", "h", " ", "i", "j", " ", "k", "l", "!", " ">>,
      <<"x", "?", ".", " ">>,
      <<"y", "z">>,
      <<" ">> }
ChunkTexts == {Concat(q) : q \in SeqsUpTo(ChunkPieces, MaxParts)}
\* the values of max_chunk_length tried with them
ChunkBounds == {6, 10, 14}

\* the pieces of the texts given to extract_facts_and_figures: a year and a
\* measurement, a date, a range of years, and a sentence without figures
FactPieces ==
    { <<"S", "a", "l", "e", "s", " ", "r", "o", "s", "e", " ", "i", "n", " ", "2", "0",
         "2", "0", " ", "b", "y", " ", "3", " ", "k", "g", ".", " ">>,
      <<"T", "h", "e", " ", "b", "o", "a", "r", "d", " ", "m", "e", "t", " ", "o", "n",
         " ", "1", "2", "/", "0", "5", "/", "2", "0", "2", "1", " ", "a", "g", "a", "i",
         "n", ".", " ">>,
      <<"F", "r", "o", "m", " ", "1", "9", "9", "0", " ", "t", "o", " ", "2", "0", "0",
         "0", " ", "c", "o", "s", "t", "s", " ", "f", "e", "l", "l", " ", "a", " ", "l",
         "o", "t", ".", " ">>,
      <<"N", "o", "t", "h", "i", "n", "g", " ", "e", "l", "s", "e", " ", "h", "a", "p",
         "p", "e", "n", "e", "d", " ", "i", "n", " ", "t", "h", "e", " ", "n", "o", "r",
         "t", "h", " ", "r", "e", "g", "i", "o", "n", " ", "t", "h", "e", "n", ".", " ">> }
FactTexts == {Concat(q) : q \in SeqsUpTo(FactPieces, MaxParts)}
\* nine sentences, each with a year of its own, and two with a date
ManyFigures ==
    Concat([k \in 1..9 |->
        <<"Y", "e", "a", "r", " ", "2", "0", "0">>
            \o <<DigitSeq[k + 1]>> \o <<" ", "w", "a", "s", " ", "g", "o", "o", "d", ".", " ">>])
        \o <<"W", "e", " ", "m", "e", "t", " ", "o", "n", " ", "1", "/", "0", "2", "/",
             "0", "3", " ", "t", "h", "e", "r", "e", ".", " ">>
        \o <<"W", "e", " ", "m", "e", "t", " ", "o", "n", " ", "4", "/", "0", "5", "/",
             "0", "6", " ", "t", "h", "e", "r", "e", ".", " ">>

Passages ==
    [text : ChunkTexts, max_chunk_length : ChunkBounds]
        \cup [text : FactTexts \cup {ManyFigures}, max_chunk_length : {ChunkLimit}]

CombineItems == {<<>>, <<" ">>, ShortSummary, LongSummary}
CombineLengths == {3, 10, 45, 50, 130, 300}
CombineArgs ==
    [summaries : SeqsUpTo(CombineItems, MaxItems),
     key_points : SeqsUpTo({ShortSummary, LongSummary}, MaxItems),
     facts : SeqsUpTo({ShortSummary, LongSummary}, MaxItems),
     max_length : CombineLengths]

MaxPages == 2

\* a page of text with a formula, without images, on which extract_tables raises
TextPage ==
    [text |->
        <<"T", "h", "e", " ", "r", "e", "s", "u", "l", "t", "s", " ", "o", "f", " ",
          "t", "h", "e", " ", "s", "t", "u", "d", "y", " ", "a", "r", "e", " ", "s",
          "h", "o", "w", "n", " ", "b", "e", "l", "o", "w", " ", "i", "n", " ", "2",
          "0", "2", "0", ".", "\n", "E", " ", "=", " ", "m", "c", "^", "2", " ", "h",
          "o", "l", "d", "s", ".">>,
     tables |-> [ok |-> FALSE],
     images |-> <<>>]

Cell(str) == [null |-> FALSE, str |-> str]
None == [null |-> TRUE, str |-> <<>>]

\* a scanned page: a few characters of text, a table with a None cell, an
\* empty row and an empty cell, and four images: one that fitz cannot read,
\* a blank one, one with a formula, and another that fitz cannot read
ScanPage ==
    [text |-> <<"P", "a", "g", "e", " ", "2">>,
     tables |-> [ok |-> TRUE,
                 value |-> << <<  <<Cell(<<"a">>), None>>, <<>>,
                                  <<Cell(<<>>), Cell(<<"b", " ", "1">>)>>  >> >>],
     images |-> <<[ok |-> FALSE, ocr_text |-> <<>>],
                  [ok |-> TRUE, ocr_text |-> <<" ">>],
                  [ok |-> TRUE, ocr_text |-> <<"x", " ", "=", " ", "1">>],
                  [ok |-> FALSE, ocr_text |-> <<>>]>>]

\* a page without text, with an image without text, whose first table has no
\* row and whose second table has one
EmptyPage ==
    [text |-> <<"\n">>,
     tables |-> [ok |-> TRUE, value |-> << <<>>, << <<Cell(<<"c">>)>> >> >>],
     images |-> <<[ok |-> TRUE, ocr_text |-> <<>>]>>]

\* a page of text in which the same formula stands twice, without tables and
\* images
TwicePage ==
    [text |->
        <<"T", "w", "i", "c", "e", ":", " ", "x", " ", "=", " ", "1", ";", " ", "x",
          " ", "=", " ", "1", ".", " ", "T", "h", "e", " ", "r", "e", "s", "t", " ",
          "o", "f", " ", "t", "h", "i", "s", " ", "p", "a", "g", "e", " ", "i", "s",
          " ", "p", "l", "a", "i", "n", " ", "t", "e", "x", "t", ".">>,
     tables |-> [ok |-> TRUE, value |-> <<>>],
     images |-> <<>>]

Pages == {TextPage, ScanPage, EmptyPage}

Files ==
    {[ok |-> TRUE, pages |-> pages] : pages \in UNION {[1..n -> Pages] : n \in 1..MaxPages}}
        \cup {[ok |-> TRUE, pages |-> <<TwicePage>>]}
        \cup {[ok |-> FALSE, err |-> TaggerError]}

Uploads ==
    {[is_pdf |-> TRUE, file |-> f] : f \in Files}
        \cup {[is_pdf |-> FALSE, file |-> [ok |-> TRUE, pages |-> <<TextPage>>]]}

\* the processors that the construction of main.py has built: all, or all but one
ServiceSets == {Services} \cup {Services \ {s} : s \in Services}

\* the calls that raise during one analysis: none, one, or all
Failures == {{}, Features} \cup {{f} : f \in Features}

TextOf(extracted_data) == IF extracted_data.ok THEN extracted_data.text ELSE <<>>

\* what the tagger answers for a text: no span, the first word as an
\* organization, or an exception
TaggerAnswers(text) ==
    LET First(a, b) ==
            IF Len(a) = 0 THEN {}
            ELSE {[ok |-> TRUE, text |-> text,
                   ents |-> <<[start |-> a[1] - 1, end |-> b[1],
                               text |-> SubSeq(text, a[1], b[1]), label |-> "ORG"]>>]}
    IN  {[ok |-> TRUE, text |-> text, ents |-> <<>>],
         [ok |-> FALSE, text |-> text, err |-> TaggerError]}
            \cup First(GapStarts(text, WhiteSpace), GapEnds(text, WhiteSpace))

(***************************************************************************)
(* The state machine.  A process builds its three processors and then      *)
(* serves one operation at a time.                                         *)
(***************************************************************************)
VARIABLES
    stage,           \* "idle", or the work at hand: "math", "ner", "summary", "combine",
                     \* "document", "passage"
    ran,             \* the operations completed for the input at hand
    hash_seed,       \* the str hash seed of the process
    nlp,             \* NERProcessor.nlp is not None
    model_loaded,    \* TextSummarizer.model_loaded
    mathText,        \* the text given to the MathExpressionExtractor
    expressions,     \* what extract_expressions returned last
    earlier,         \* what the call of extract_expressions before the last returned
    formulas,        \* what extract_formulas_with_context returned
    doc,             \* what the tagger answers for the text given to the NERProcessor
    named_entities,  \* what extract_entities returned
    highlighted,     \* what highlight_entities_in_text returned
    request,         \* the arguments of generate_summary
    summary,         \* what generate_summary returned
    calls,           \* the calls of self.summarizer made by generate_summary
    outcomes,        \* what self.summarizer did, call by call
    served,          \* the calls of generate_summary this process has answered
    parts,           \* the arguments of create_comprehensive_summary
    combined,        \* what create_comprehensive_summary returned
    services,        \* the processors of main.py that are not None
    upload,          \* the file given to analyze_document
    extracted,       \* what extract_text returned for the file
    raised,          \* the features whose call raised during analyze_document
    response,        \* what analyze_document answered
    passage,         \* the text and the bound given to the two operations below
    chunked,         \* what split_text_into_chunks returned
    figures          \* what extract_facts_and_figures returned

vars == <<stage, ran, hash_seed, nlp, model_loaded, mathText, expressions, earlier,
          formulas, doc, named_entities, highlighted, request, summary, calls, outcomes,
          served, parts, combined, services, upload, extracted, raised, response, passage,
          chunked, figures>>

mathVars == <<mathText, expressions, earlier, formulas>>
nerVars == <<doc, named_entities, highlighted>>
summaryVars == <<request, summary, calls, outcomes, served>>
combineVars == <<parts, combined>>
documentVars == <<upload, extracted, raised, response>>
passageVars == <<passage, chunked, figures>>
processVars == <<hash_seed, nlp, model_loaded, services>>

Init ==
    /\ stage = "idle"
    /\ ran = {}
    /\ hash_seed \in HashSeeds
    /\ nlp \in BOOLEAN
    /\ model_loaded \in BOOLEAN
    /\ mathText = <<>>
    /\ expressions = <<>>
    /\ earlier = <<>>
    /\ formulas = <<>>
    /\ doc = [ok |-> TRUE, text |-> <<>>, ents |-> <<>>]
    /\ named_entities = <<>>
    /\ highlighted = <<>>
    /\ request = [text |-> <<>>, max_length |-> 0, min_length |-> 0]
    /\ summary = <<>>
    /\ calls = <<>>
    /\ outcomes = <<>>
    /\ served = 0
    /\ parts = [summaries |-> <<>>, key_points |-> <<>>, facts |-> <<>>, max_length |-> 0]
    /\ combined = <<>>
    /\ services \in ServiceSets
    /\ upload = [is_pdf |-> TRUE, file |-> [ok |-> TRUE, pages |-> <<>>]]
    /\ extracted = [ok |-> TRUE, text |-> <<>>, page_count |-> 0, pages_data |-> <<>>]
    /\ raised = {}
    /\ response = [status |-> 0]
    /\ passage = [text |-> <<>>, max_chunk_length |-> 0]
    /\ chunked = <<>>
    /\ figures = <<>>

\* a text arrives for the MathExpressionExtractor
ReceiveMathText ==
    /\ stage = "idle"
    /\ stage' = "math"
    /\ mathText' \in MathTexts
    /\ UNCHANGED <<ran, expressions, earlier, formulas, nerVars, summaryVars, combineVars,
                   documentVars, processVars, passageVars>>

\* MathExpressionExtractor.extract_expressions(mathText), a first and a second time
ExtractExpressions ==
    /\ stage = "math"
    /\ "again" \notin ran
    /\ expressions' = extract_expressions(mathText, hash_seed)
    /\ earlier' = expressions
    /\ ran' = ran \cup (IF "expressions" \in ran THEN {"again"} ELSE {"expressions"})
    /\ UNCHANGED <<stage, mathText, formulas, nerVars, summaryVars, combineVars,
                   documentVars, processVars, passageVars>>

\* the process is started anew between two calls: its str hashes change
Restart ==
    /\ stage = "math"
    /\ "expressions" \in ran
    /\ "again" \notin ran
    /\ hash_seed' \in HashSeeds \ {hash_seed}
    /\ UNCHANGED <<stage, ran, nlp, model_loaded, services, mathVars, nerVars, summaryVars,
                   combineVars, documentVars, passageVars>>

\* MathExpressionExtractor.extract_formulas_with_context(mathText)
ExtractFormulas ==
    /\ stage = "math"
    /\ "formulas" \notin ran
    /\ formulas' = extract_formulas_with_context(mathText)
    /\ ran' = ran \cup {"formulas"}
    /\ UNCHANGED <<stage, mathText, expressions, earlier, nerVars, summaryVars, combineVars,
                   documentVars, processVars, passageVars>>

\* a text arrives for the NERProcessor; doc is what the tagger makes of it
ReceiveDocument ==
    /\ stage = "idle"
    /\ stage' = "ner"
    /\ doc' \in Docs
    /\ UNCHANGED <<ran, named_entities, highlighted, mathVars, summaryVars, combineVars,
                   documentVars, processVars, passageVars>>

\* NERProcessor.extract_entities(doc.text)
ExtractEntities ==
    /\ stage = "ner"
    /\ "entities" \notin ran
    /\ named_entities' = extract_entities(nlp, doc)
    /\ ran' = ran \cup {"entities"}
    /\ UNCHANGED <<stage, doc, highlighted, mathVars, summaryVars, combineVars,
                   documentVars, processVars, passageVars>>

\* NERProcessor.highlight_entities_in_text(doc.text)
HighlightEntities ==
    /\ stage = "ner"
    /\ "highlight" \notin ran
    /\ highlighted' = highlight_entities_in_text(nlp, doc)
    /\ ran' = ran \cup {"highlight"}
    /\ UNCHANGED <<stage, doc, named_entities, mathVars, summaryVars, combineVars,
                   documentVars, processVars, passageVars>>

\* a call of generate_summary arrives
ReceiveRequest ==
    /\ stage = "idle"
    /\ stage' = "summary"
    /\ request' \in Requests
    /\ UNCHANGED <<ran, summary, calls, outcomes, served, mathVars, nerVars, combineVars,
                   documentVars, processVars, passageVars>>

\* TextSummarizer.generate_summary(text, max_length, min_length)
GenerateSummary ==
    /\ stage = "summary"
    /\ "summary" \notin ran
    /\ served < MaxCalls
    /\ served' = served + 1
    /\ \E responses \in ResponseRuns(Len(IF model_loaded
                                          THEN SummarizerCalls(request.text,
                                                               request.max_length,
                                                               request.min_length)
                                          ELSE <<>>)) :
          LET Returned(out) ==
                  summary' = out.summary /\ calls' = out.calls /\ outcomes' = responses
          IN  Returned(generate_summary(model_loaded, request.text, request.max_length,
                                        request.min_length, responses))
    /\ ran' = ran \cup {"summary"}
    /\ UNCHANGED <<stage, request, mathVars, nerVars, combineVars, documentVars,
                   processVars, passageVars>>

\* a call of create_comprehensive_summary arrives
ReceiveParts ==
    /\ stage = "idle"
    /\ stage' = "combine"
    /\ parts' \in CombineArgs
    /\ UNCHANGED <<ran, combined, mathVars, nerVars, summaryVars, documentVars, processVars,
                   passageVars>>

\* TextSummarizer.create_comprehensive_summary(summaries, key_points, facts, max_length)
CreateComprehensiveSummary ==
    /\ stage = "combine"
    /\ "combine" \notin ran
    /\ combined' = create_comprehensive_summary(parts.summaries, parts.key_points,
                                                parts.facts, parts.max_length)
    /\ ran' = ran \cup {"combine"}
    /\ UNCHANGED <<stage, parts, mathVars, nerVars, summaryVars, documentVars, processVars,
                   passageVars>>

\* a file arrives
ReceiveUpload ==
    /\ stage = "idle"
    /\ stage' = "document"
    /\ upload' \in Uploads
    /\ UNCHANGED <<ran, extracted, raised, response, mathVars, nerVars, summaryVars,
                   combineVars, processVars, passageVars>>

\* PDFTextExtractor.extract_text(upload.file)
ExtractText ==
    /\ stage = "document"
    /\ ran = {}
    /\ extracted' = extract_text(upload.file)
    /\ ran' = ran \cup {"text"}
    /\ UNCHANGED <<stage, upload, raised, response, mathVars, nerVars, summaryVars,
                   combineVars, processVars, passageVars>>

\* analyze_document(upload); doc becomes what the tagger answered for the text
AnalyzeDocument ==
    /\ stage = "document"
    /\ ran = {}
    /\ \E failing \in Failures :
          \E answer \in TaggerAnswers(TextOf(extract_text(upload.file))) :
             \E responses \in ResponseRuns(Len(IF model_loaded /\ "summary" \notin failing
                                                THEN SummarizerCalls(answer.text,
                                                                     SummaryMaxLength,
                                                                     SummaryMinLength)
                                                ELSE <<>>)) :
                /\ response' = analyze_document(upload, services, hash_seed, nlp,
                                                model_loaded, answer, responses, failing)
                /\ raised' = failing
                /\ doc' = answer
    /\ ran' = ran \cup {"analysis"}
    /\ UNCHANGED <<stage, upload, extracted, named_entities, highlighted, mathVars,
                   summaryVars, combineVars, processVars, passageVars>>

\* the same process gets another call of generate_summary: nothing is
\* returned yet for it
NextRequest ==
    /\ stage = "summary"
    /\ "summary" \in ran
    /\ served < MaxCalls
    /\ request' \in LaterRequests
    /\ ran' = ran \ {"summary"}
    /\ summary' = <<>>
    /\ calls' = <<>>
    /\ outcomes' = <<>>
    /\ UNCHANGED <<stage, served, mathVars, nerVars, combineVars, documentVars,
                   processVars, passageVars>>

\* a text arrives for the chunker and the fact extractor
ReceivePassage ==
    /\ stage = "idle"
    /\ stage' = "passage"
    /\ passage' \in Passages
    /\ UNCHANGED <<ran, chunked, figures, mathVars, nerVars, summaryVars, combineVars,
                   documentVars, processVars>>

\* TextSummarizer.split_text_into_chunks(text, max_chunk_length)
SplitTextIntoChunks ==
    /\ stage = "passage"
    /\ "chunks" \notin ran
    /\ chunked' = split_text_into_chunks(passage.text, passage.max_chunk_length)
    /\ ran' = ran \cup {"chunks"}
    /\ UNCHANGED <<stage, passage, figures, mathVars, nerVars, summaryVars, combineVars,
                   documentVars, processVars>>

\* TextSummarizer.extract_facts_and_figures(text)
ExtractFactsAndFigures ==
    /\ stage = "passage"
    /\ "facts" \notin ran
    /\ figures' = extract_facts_and_figures(passage.text)
    /\ ran' = ran \cup {"facts"}
    /\ UNCHANGED <<stage, passage, chunked, mathVars, nerVars, summaryVars, combineVars,
                   documentVars, processVars>>

NextMath == ReceiveMathText \/ ExtractExpressions \/ Restart \/ ExtractFormulas
NextNer == ReceiveDocument \/ ExtractEntities \/ HighlightEntities
NextSummary == ReceiveRequest \/ GenerateSummary \/ NextRequest
NextCombine == ReceiveParts \/ CreateComprehensiveSummary
NextPassage == ReceivePassage \/ SplitTextIntoChunks \/ ExtractFactsAndFigures
NextDocument == ReceiveUpload \/ ExtractText \/ AnalyzeDocument

Next ==
    \/ ReceiveMathText \/ ExtractExpressions \/ Restart \/ ExtractFormulas
    \/ ReceiveDocument \/ ExtractEntities \/ HighlightEntities
    \/ ReceiveRequest \/ GenerateSummary \/ NextRequest
    \/ ReceiveParts \/ CreateComprehensiveSummary
    \/ ReceiveUpload \/ ExtractText \/ AnalyzeDocument
    \/ ReceivePassage \/ SplitTextIntoChunks \/ ExtractFactsAndFigures

Spec == Init /\ [][Next]_vars

\* the MathExpressionExtractor alone
InitMath == Init /\ nlp /\ model_loaded /\ services = Services
SpecMath == InitMath /\ [][NextMath]_vars

\* the NERProcessor alone
InitNer == Init /\ hash_seed = <<FALSE, 0>> /\ model_loaded /\ services = Services
SpecNer == InitNer /\ [][NextNer]_vars

\* the two extractors
InitExtract == Init /\ nlp /\ model_loaded /\ services = Services
SpecExtract == InitExtract /\ [][NextMath \/ NextNer]_vars

\* the TextSummarizer alone
InitSummary == Init /\ hash_seed = <<FALSE, 0>> /\ nlp /\ services = Services
SpecSummary == InitSummary /\ [][NextSummary]_vars

\* create_comprehensive_summary alone
InitCombine == Init /\ hash_seed = <<FALSE, 0>> /\ nlp /\ model_loaded /\ services = Services
SpecCombine == InitCombine /\ [][NextCombine]_vars

\* split_text_into_chunks and extract_facts_and_figures alone
InitPassage == Init /\ hash_seed = <<FALSE, 0>> /\ nlp /\ model_loaded /\ services = Services
SpecPassage == InitPassage /\ [][NextPassage]_vars

\* the PDFTextExtractor and analyze_document: a processor is missing, or the
\* tagger or the summarization model is, or none of them
InitDocument ==
    Init /\ hash_seed = <<FALSE, 0>> /\ (services = Services \/ (nlp /\ model_loaded))
SpecDocument == InitDocument /\ [][NextDocument]_vars

(***************************************************************************)
(* The claims.                                                             *)
(***************************************************************************)
Einstein == <<"E"," ","="," ","m","c","^","2">>
XPlusYIsZ == <<"x"," ","+"," ","y"," ","="," ","z">>
TwoFractions == <<"1","/","2"," ">> \o <<"1","/","3"," ">>
PageEinstein == <<"p","a","g","e"," ">> \o <<"E"," ","="," ","m","c","^","2">>

\* the number of entries of seq that are x
Count(seq, x) == Cardinality({i \in 1..Len(seq) : seq[i] = x})

\* the matches of the patterns in text, before they are cleaned and filtered
Candidates(text) ==
    UNION {Range(PatternMatches(text, patterns[k])) : k \in 1..Len(patterns)}

\* C1: for every text (the empty text, a text under 50 words, a text with no
\* sentence terminator), every max_length >= 10 and either state of the model,
\* the string generate_summary returns has length <= max_length.
C1_SummaryWithinMaxLength ==
    ("summary" \in ran /\ request.max_length >= 10)
        => Len(summary) <= request.max_length

\* generate_summary has returned 50 characters for the empty text and
\* max_length = 10
C1_EmptyTextOverBudget ==
    /\ "summary" \in ran
    /\ request.text = <<>>
    /\ request.max_length = 10
    /\ Len(summary) = 50

\* C2: create_comprehensive_summary returns a string of length <= max_length
\* for every list of summaries, key points and facts when max_length >= 3, in
\* every branch of the cascade, the cut to max_length - 3 characters plus "..."
\* included.
C2_CombinedWithinMaxLength ==
    ("combine" \in ran /\ parts.max_length >= 3) => Len(combined) <= parts.max_length

\* the summary and the key points fitted by their lengths alone, went over
\* max_length once joined by " | ", and were cut to max_length - 3 plus "..."
C2_JoinedThenCut ==
    /\ "combine" \in ran
    /\ parts.max_length >= 3
    /\ Len(parts.summaries) > 0 /\ Len(parts.key_points) > 0 /\ Len(parts.facts) > 0
    /\ Len(combined) = parts.max_length
    /\ SubSeq(combined, Len(combined) - 2, Len(combined)) = Ellipsis
    /\ Contains(combined, PartSep)

\* C3: whenever the cleaned text has fewer than 50 words, generate_summary
\* returns exactly "Text too short for meaningful summarization." and makes no
\* call of the summarization model, whether or not a model is loaded.
C3_ShortTextShortCircuits ==
    ("summary" \in ran /\ WordCount(clean_text_for_summarization(request.text)) < 50)
        => (summary = TooShort /\ calls = <<>>)

\* with no model loaded, a text of one sentence of seven words got the answer
\* of the fallback
C3_FallbackBeforeShortCircuit ==
    /\ "summary" \in ran
    /\ ~model_loaded
    /\ request.text = SentenceA
    /\ WordCount(clean_text_for_summarization(request.text)) = 7
    /\ summary # TooShort
    /\ Len(summary) > 0

\* C4: with no model loaded and a text with at least one qualifying sentence,
\* the fallback summary is non-empty and its total length, separators and
\* " | FACTS: " prefix included, stays under max_length.
C4_FallbackUnderMaxLength ==
    ("summary" \in ran /\ ~model_loaded
       /\ Len(RankedSentences(request.text, FallbackMinLen, FallbackMinWords)) > 0)
        => (Len(summary) > 0 /\ Len(summary) < request.max_length)

\* with no model loaded, six sentences and max_length = 400 gave 401 characters
C4_FallbackOverBudget ==
    /\ "summary" \in ran
    /\ ~model_loaded
    /\ request.text = BudgetText
    /\ request.max_length = 400
    /\ Len(summary) = 401

\* C5: extract_expressions returns at most 50 items,
\* extract_formulas_with_context at most 30, and every per-label list of
\* extract_entities has at most 20, whatever the number of matches.
C5_Caps ==
    /\ Len(expressions) <= 50
    /\ Len(earlier) <= 50
    /\ Len(formulas) <= 30
    /\ \A l \in DOMAIN named_entities : Len(named_entities[l]) <= 20

\* a text with more than 50 different valid expressions was cut to 50
\* expressions and 30 formulas
C5_CapsReached ==
    /\ {"expressions", "formulas"} \subseteq ran
    /\ Len(CollectedExpressions(mathText)) > 50
    /\ Len(expressions) = 50
    /\ Len(formulas) = 30

\* C6: for each label, extract_entities returns a list sorted ascending and
\* without a repeated string; its entries are the cleaned texts of spans that
\* passed the validity filter, and a span seen again under the same label adds
\* no second entry.
C6_SortedDistinctValid ==
    ("entities" \in ran /\ nlp /\ doc.ok) =>
        \A r \in DOMAIN named_entities :
            LET list == named_entities[r]
            IN  /\ \A i \in 1..(Len(list) - 1) : StrLess(list[i], list[i + 1])
                /\ \A i \in 1..Len(list) : \A j \in 1..Len(list) :
                      list[i] = list[j] => i = j
                /\ \A i \in 1..Len(list) :
                      \E k \in 1..Len(doc.ents) :
                          /\ label_mapping(doc.ents[k].label) = r
                          /\ is_valid_entity(doc.ents[k].text, doc.ents[k].label)
                          /\ clean_entity(doc.ents[k].text) = list[i]
                /\ \A k \in 1..Len(doc.ents) :
                      (label_mapping(doc.ents[k].label) = r
                         /\ is_valid_entity(doc.ents[k].text, doc.ents[k].label))
                        => Count(list, clean_entity(doc.ents[k].text)) <= 1

\* three valid spans of one label, one of them seen again and one that sorts
\* before the first, gave a list of two
C6_SortedAndSeenAgain ==
    /\ "entities" \in ran /\ nlp /\ doc.ok
    /\ Len(doc.ents) = 3
    /\ \A k \in 1..3 : doc.ents[k].label = "GPE"
                          /\ is_valid_entity(doc.ents[k].text, doc.ents[k].label)
    /\ clean_entity(doc.ents[1].text) = clean_entity(doc.ents[3].text)
    /\ StrLess(clean_entity(doc.ents[2].text), clean_entity(doc.ents[1].text))
    /\ Len(named_entities["Locations"]) = 2

\* C7: when the same equality statement occurs twice, separated by sentence
\* punctuation, as in "E = mc^2. E = mc^2.", the list extract_expressions
\* returns holds the cleaned statement "E = mc^2" exactly once.
C7_StatementExactlyOnce ==
    ("expressions" \in ran /\ mathText = EinsteinText) => Count(expressions, Einstein) = 1

\* for "E = mc^2. E = mc^2." the list holds the whole text as one entry, and
\* "E = mc^2" is not an entry
C7_StatementsMerged ==
    /\ "expressions" \in ran
    /\ mathText = EinsteinText
    /\ Count(expressions, EinsteinText) = 1
    /\ Count(expressions, Einstein) = 0

\* C8: extract_expressions on the text "$$ x + y = z $$" returns exactly
\* ["x + y = z"]: the delimiters are gone and the matches of the two
\* recognizers are one entry.
C8_DelimitedIsOneEntry ==
    ("expressions" \in ran /\ mathText = DelimitedText) => expressions = <<XPlusYIsZ>>

\* "$$ x + y = z $$" was matched by two patterns and gave one entry
C8_DelimitedExtracted ==
    /\ "expressions" \in ran
    /\ mathText = DelimitedText
    /\ Cardinality({k \in 1..Len(patterns) : Len(PatternMatches(mathText, patterns[k])) > 0}) = 2
    /\ Len(expressions) = 1

C10_SameTextSameList ==
    /\ "expressions" \in ran =>
          \A i \in 1..(Len(expressions) - 1) : Len(expressions[i]) >= Len(expressions[i + 1])
    /\ "again" \in ran => expressions = earlier

\* two calls on "1/2 1/3 ", the process started anew in between, gave the two
\* entries in different orders
C10_OrderChanged ==
    /\ "again" \in ran
    /\ mathText = TwoFractions
    /\ earlier # expressions
    /\ Len(earlier) = 2 /\ Len(expressions) = 2

\* the spans do not overlap pairwise and each carries text[start:end]
SpansOfText(text, spans) ==
    /\ \A k \in 1..Len(spans) :
          /\ spans[k].start <= spans[k].end
          /\ spans[k].text = Slice(text, spans[k].start, spans[k].end)
    /\ \A j, k \in 1..Len(spans) :
          j # k => (spans[j].end <= spans[k].start \/ spans[k].end <= spans[j].start)

\* one pass from left to right over spans sorted by start: the stretch before
\* each span as it is, the span between markers, and the rest of the text
LeftToRight(text, spans) ==
    Concat([k \in 1..Len(spans) |->
               Slice(text, IF k = 1 THEN 0 ELSE spans[k - 1].end, spans[k].start)
                   \o Marker \o spans[k].text \o Marker])
        \o Slice(text, IF Len(spans) = 0 THEN 0 ELSE spans[Len(spans)].end, Len(text))

ValidSpans(ents) == SelectSeq(ents, LAMBDA e : is_valid_entity(e.text, e.label))

ParisHighlighted ==
    <<"*","*","P","a","r","i","s","*","*"," ","i","s"," ","g","r","e","a","t">>

\* C11: for pairwise non-overlapping validated spans that carry text[start:end],
\* highlight_entities_in_text, which replaces in descending order of start,
\* returns the string of one left-to-right pass over the spans in ascending
\* order; it returns the text itself when no span passes the filter, and
\* "**Paris** is great" for "Paris is great" with the span (0, 5, "Paris", "GPE").
C11_DescendingIsLeftToRight ==
    ("highlight" \in ran /\ nlp /\ doc.ok) =>
        LET Agree(valid) ==
                /\ SpansOfText(doc.text, valid) =>
                      highlighted = LeftToRight(doc.text, sort_by_start_ascending(valid))
                /\ Len(valid) = 0 => highlighted = doc.text
                /\ doc = ParisIsGreatOneSpan => highlighted = ParisHighlighted
        IN  Agree(ValidSpans(doc.ents))

\* a text of three spans, one of which the filter drops, with the two others
\* between markers
C11_TwoOfThreeHighlighted ==
    /\ "highlight" \in ran /\ nlp /\ doc.ok
    /\ Len(doc.ents) = 3
    /\ Len(ValidSpans(doc.ents)) = 2
    /\ ~is_valid_entity(doc.ents[2].text, doc.ents[2].label)
    /\ SpansOfText(doc.text, doc.ents)
    /\ Len(highlighted) = Len(doc.text) + 4 * Len(Marker)
    /\ highlighted # doc.text

ParisAndGreatHighlighted ==
    <<"*","*","P","a","r","i","s","*","*"," ","i","s"," ","*","*","g","r","e","a","t","*","*">>

\* C12: for "Paris is great" with the spans (0, 5, "Paris", "GPE") and
\* (9, 14, "great", "X") the second span is filtered out by the stopword rule
\* and highlight_entities_in_text returns "**Paris** is great".
C12_SecondSpanFilteredOut ==
    ("highlight" \in ran /\ nlp /\ doc = ParisIsGreat) =>
        /\ ~is_valid_entity(doc.ents[2].text, doc.ents[2].label)
        /\ highlighted = ParisHighlighted

\* "great" is no stopword of is_valid_entity: both spans are between markers
C12_BothSpansHighlighted ==
    /\ "highlight" \in ran /\ nlp /\ doc = ParisIsGreat
    /\ Lower(clean_entity(doc.ents[2].text)) \notin entity_false_positives
    /\ is_valid_entity(doc.ents[2].text, doc.ents[2].label)
    /\ highlighted = ParisAndGreatHighlighted

\* the text of a page as the claim puts it: the base text, the non-blank OCR
\* texts after a newline each, the non-empty rows after a newline each
Blob(base, ocr_texts, rows) ==
    base
        \o Concat([k \in 1..Len(ocr_texts) |-> <<"\n">> \o ocr_texts[k]])
        \o Concat([k \in 1..Len(rows) |->
                      <<"\n">> \o Join([c \in 1..Len(rows[k]) |->
                                           IF rows[k][c].null \/ Len(rows[k][c].str) = 0
                                           THEN <<>> ELSE rows[k][c].str],
                                       CellSep)])

\* the OCR texts of the readable images of a page that are not blank, in image order
OcrTexts(page) ==
    LET Texts(imgs) == [k \in 1..Len(imgs) |-> imgs[k].ocr_text]
    IN  Texts(SelectSeq(page.images,
                        LAMBDA img : img.ok /\ \E i \in 1..Len(img.ocr_text) :
                                                   ~IsSpace(img.ocr_text[i])))

\* the non-empty rows of the tables of a page, in table and row order
Rows(page, has_table) ==
    IF ~has_table THEN <<>>
    ELSE SelectSeq(Concat(page.tables.value), LAMBDA row : Len(row) > 0)

ScanThenTextPage ==
    <<"\n", "x", " ", "=", " ", "1", "\n", "a", " ", "|", " ", "\n",
      " ", "|", " ", "b", " ", "1", "\n", "\n", "T", "h", "e", " ",
      "r", "e", "s", "u", "l", "t", "s", " ", "o", "f", " ", "t", "h",
      "e", " ", "s", "t", "u", "d", "y", " ", "a", "r", "e", " ", "s",
      "h", "o", "w", "n", " ", "b", "e", "l", "o", "w", " ", "i", "n",
      " ", "2", "0", "2", "0", ".", "$", "$", " ", "E", " ", "=", " ",
      "m", "c", "^", "2", " ", "h", "o", "l", "d", "s", " ", "$", "$",
      ".">>

C14_OnlyParserFailureIsFatal ==
    ("analysis" \in ran /\ upload.is_pdf /\ "pdf_extractor" \in services) =>
        /\ upload.file.ok => response.status = Success
        /\ response.status = Success =>
              /\ ("math" \in raised /\ "math_extractor" \in services)
                    => response.math_expressions = <<MathError \o Raised>>
              /\ ("ner" \in raised /\ "ner_processor" \in services)
                    => response.named_entities = ErrorEntry(NerError \o Raised)
              /\ ("summary" \in raised /\ "summarizer" \in services)
                    => response.summary = SummaryError \o Raised
              /\ ("math" \notin raised /\ "math_extractor" \in services)
                    => response.math_expressions
                           = extract_expressions(response.text_content, hash_seed)
              /\ ("ner" \notin raised /\ "ner_processor" \in services)
                    => response.named_entities = extract_entities(nlp, doc)

\* a file of one page without text is parsed, and the answer is the error 400
\* "No text found in the PDF"
C14_EmptyTextRejected ==
    /\ "analysis" \in ran
    /\ upload.is_pdf /\ "pdf_extractor" \in services
    /\ upload.file = [ok |-> TRUE, pages |-> <<EmptyPage>>]
    /\ extract_text(upload.file).ok
    /\ Len(extract_text(upload.file).text) = 0
    /\ response = [status |-> BadRequest, detail |-> NoTextFound]

\* the parts joined by " | ", whatever max_length is
JoinedParts(args) ==
    create_comprehensive_summary(args.summaries, args.key_points, args.facts,
                                 Len(Join(args.summaries \o args.key_points \o args.facts,
                                          <<" ">>)) + 100)

\* the number of parts: the summary, the key points, the facts
NumParts(args) ==
    (IF Len(Strip(Join(args.summaries, <<" ">>))) > 0 THEN 1 ELSE 0)
        + (IF Len(args.key_points) > 0 THEN 1 ELSE 0)
        + (IF Len(args.facts) > 0 THEN 1 ELSE 0)

\* C15: when the joined parts exceed max_length and there is more than one
\* part, create_comprehensive_summary keeps the summary part and the key points
\* part if the two fit under max_length; "IMPORTANT FACTS: " is in no result
\* over the budget, also when there are no key points, or no summary.
C15_NoFactsWhenOverBudget ==
    ("combine" \in ran /\ NumParts(parts) > 1 /\ Len(JoinedParts(parts)) > parts.max_length)
        => ~Contains(combined, FactsPrefix)

\* a summary and a fact without key points, one character over max_length
\* once joined: the facts part is kept and the end is cut
C15_FactsKeptAndCut ==
    /\ "combine" \in ran
    /\ parts.summaries = <<ShortSummary>> /\ parts.key_points = <<>>
    /\ parts.facts = <<ShortSummary>>
    /\ parts.max_length = 50
    /\ Len(JoinedParts(parts)) = 51
    /\ combined = SummaryPrefix \o ShortSummary \o PartSep \o FactsPrefix
                      \o <<"S", "a", "l", "e", "s", " ", "r">> \o Ellipsis

\* the fact extract_facts_and_figures finds in the chunk of YearSentence(k)
YearFact(k) ==
    <<"I", "n", " ", "2", "0", "1", DigitSeq[k + 1], " ">>
        \o LongWord \o <<" ">> \o Tail(LongWord) \o <<" ">> \o SubSeq(LongWord, 1, 6)

\* what the chunked path makes of the calls that did not raise
SummaryOfChunks(good, key_points, fallback) ==
    IF Len(good) = 0 THEN fallback
    ELSE create_comprehensive_summary(
             [k \in 1..Len(good) |-> outcomes[good[k]].summary_text], key_points,
             Concat([k \in 1..Len(good) |-> extract_facts_and_figures(calls[good[k]].text)]),
             request.max_length)

\* the calls are those for the chunks numbered in eligible, one each and in
\* order, and only the calls that did not raise are in the result
OncePerChunk(chunks, eligible) ==
    /\ Len(calls) <= MaxChunks
    /\ Len(calls) = Len(eligible)
    /\ Len(outcomes) = Len(calls)
    /\ \A j \in 1..Len(calls) : calls[j].text = chunks[eligible[j]]
    /\ summary = SummaryOfChunks(SelectSeq(Idx(Len(calls)), LAMBDA j : outcomes[j].ok),
                                 extract_key_points(request.text, NumKeyPoints),
                                 _comprehensive_fallback_summary(request.text,
                                                                 request.max_length))

\* C16: in the chunked path of generate_summary (model loaded, a cleaned text
\* of at least 50 words and more than 900 characters) the collaborator is
\* called once for each chunk among the first 6 that has at least 20 words, in
\* chunk order and for no other chunk, so at most 6 times; a call that raises
\* is not repeated and gives neither a summary nor facts to the result, and the
\* chunks after it are still summarized.
C16_OnceForEachOfFirstSixChunks ==
    LET Chunks(chunks) ==
            OncePerChunk(chunks,
                         SelectSeq(Idx(Min(Len(chunks), 6)),
                                   LAMBDA i : WordCount(chunks[i]) >= 20))
        Cleaned(cleaned_text) ==
            (WordCount(cleaned_text) >= 50 /\ Len(cleaned_text) > 900)
                => Chunks(split_text_into_chunks(cleaned_text, 800))
    IN  (stage = "summary" /\ "summary" \in ran /\ model_loaded)
            => Cleaned(clean_text_for_summarization(request.text))

\* of seven chunks the second has too few words and the seventh is past the
\* cap; the call for the third chunk raised, and the facts of the first chunk
\* are followed by those of the fourth
C16_FailedChunkLeftOut ==
    /\ stage = "summary" /\ "summary" \in ran /\ model_loaded
    /\ request = LongRequest
    /\ Len(calls) = 5
    /\ ~outcomes[2].ok /\ outcomes[3].ok
    /\ Contains(summary, FactsPrefix \o YearFact(1) \o <<";", " ">> \o YearFact(4))

\* C17: every chunk split_text_into_chunks returns is at most max_chunk_length
\* characters long, the ". " between its sentences counted, whatever the
\* text, a text with one sentence longer than the bound included.
C17_ChunksWithinBound ==
    (stage = "passage" /\ "chunks" \in ran)
        => \A k \in 1..Len(chunked) : Len(chunked[k]) <= passage.max_chunk_length

\* with a bound of 6 the sentence of 10 characters is a chunk, and the
\* sentences of 5 and 1 characters are joined to a chunk of 8
C17_ChunksOverBound ==
    /\ stage = "passage" /\ "chunks" \in ran
    /\ passage.max_chunk_length = 6
    /\ passage.text = <<"E", "f", "g", "h", " ", "i", "j", " ", "k", "l", "!", " ", "A",
                        "b", " ", "c", "d", ".", " ", "x", "?", ".", " ">>
    /\ chunked = << <<"E", "f", "g", "h", " ", "i", "j", " ", "k", "l">>,
                    <<"A", "b", " ", "c", "d", ".", " ", "x">> >>

\* [s.strip() for s in re.split(r'[.!?]+', text) if s.strip()]
NonEmptySentences(text) == SelectSeq(StrippedSentences(text), LAMBDA x : Len(x) > 0)

\* C18: the chunks split_text_into_chunks returns, read one after the other,
\* are the non-empty sentences of the text in their order, stripped and with
\* ". " for the terminators: every sentence is in exactly one chunk, whole,
\* none is lost, repeated or moved, and no chunk is empty.
C18_ChunksAreTheSentences ==
    (stage = "passage" /\ "chunks" \in ran)
        => /\ \A k \in 1..Len(chunked) : Len(chunked[k]) > 0
           /\ Concat([k \in 1..Len(chunked) |-> NonEmptySentences(chunked[k])])
                  = NonEmptySentences(passage.text)
           /\ Join(chunked, SentenceSep) = Join(NonEmptySentences(passage.text), SentenceSep)

\* with a bound of 14 three sentences, the second ended by "?.", make two
\* chunks
C18_TwoChunksOfThreeSentences ==
    /\ stage = "passage" /\ "chunks" \in ran
    /\ passage.max_chunk_length = 14
    /\ passage.text = <<"A", "b", " ", "c", "d", ".", " ", "x", "?", ".", " ", "E", "f",
                        "g", "h", " ", "i", "j", " ", "k", "l", "!", " ">>
    /\ chunked = << <<"A", "b", " ", "c", "d", ".", " ", "x">>,
                    <<"E", "f", "g", "h", " ", "i", "j", " ", "k", "l">> >>

\* the window of w characters around the match m of text, whitespace-normalized
OwnWindow(text, m, w) ==
    NormalizeSpace(Slice(text, Max(0, (m.b - 1) - w), Min(Len(text), (m.e - 1) + w)))

\* the window around every match of every pattern of the family is a fact,
\* if it is longer than min_len
OwnWindowsAreFacts(family, w, min_len) ==
    \A k \in 1..Len(family) :
        LET Kept(ms) ==
                \A j \in 1..Len(ms) :
                    Len(OwnWindow(passage.text, ms[j], w)) > min_len
                        => \E i \in 1..Len(figures) :
                               figures[i] = OwnWindow(passage.text, ms[j], w)
        IN  Kept(finditer(passage.text, family[k]))

\* C19: in extract_facts_and_figures the context of a match at position p is
\* the window text[max(0, p-w) : min(len(text), p+len(match)+w)] around that
\* very match, w = 50 for the numeric and 40 for the date patterns, also when
\* the matched string stands earlier in the text too; the window of a match at
\* the start or at the end of the text is clamped to the text.  Here: unless
\* the cap of 10 facts was reached, every such window that is long enough is
\* among the facts returned.
C19_WindowAroundTheMatch ==
    (stage = "passage" /\ "facts" \in ran /\ Len(figures) < 10)
        => /\ OwnWindowsAreFacts(number_patterns, 50, 20)
           /\ OwnWindowsAreFacts(date_patterns, 40, 15)

\* "2020" and "3 kg" stand twice in the text, 76 characters apart: both facts
\* are windows around the first "2020" and the first "3 kg", and no fact is
\* around the second
C19_WindowAroundFirstOccurrence ==
    /\ stage = "passage" /\ "facts" \in ran
    /\ passage.text = Concat(<< <<"S", "a", "l", "e", "s", " ", "r", "o", "s", "e", " ",
                                  "i", "n", " ", "2", "0", "2", "0", " ", "b", "y", " ",
                                  "3", " ", "k", "g", ".", " ">>,
                                <<"N", "o", "t", "h", "i", "n", "g", " ", "e", "l", "s",
                                  "e", " ", "h", "a", "p", "p", "e", "n", "e", "d", " ",
                                  "i", "n", " ", "t", "h", "e", " ", "n", "o", "r", "t",
                                  "h", " ", "r", "e", "g", "i", "o", "n", " ", "t", "h",
                                  "e", "n", ".", " ">>,
                                <<"S", "a", "l", "e", "s", " ", "r", "o", "s", "e", " ",
                                  "i", "n", " ", "2", "0", "2", "0", " ", "b", "y", " ",
                                  "3", " ", "k", "g", ".", " ">> >>)
    /\ figures = << Slice(passage.text, 0, 68), Slice(passage.text, 0, 75) >>

\* the contexts extract_facts_and_figures computes, pattern after pattern and
\* match after match, the numeric patterns first
ContextsInOrder(text) ==
    FamilyFacts(text, number_patterns, NumberWindow, 0)
        \o FamilyFacts(text, date_patterns, DateWindow, 0)

\* where x stands first in seq
FirstIndex(seq, x) == SetMin({i \in 1..Len(seq) : seq[i] = x})

\* facts are contexts of all, each once, in the order in which they first
\* stand in all
InOrderOfFirstOccurrence(facts, all) ==
    /\ \A i \in 1..Len(facts) : \E j \in 1..Len(all) : all[j] = facts[i]
    /\ \A i, j \in 1..Len(facts) :
           i < j => FirstIndex(all, facts[i]) < FirstIndex(all, facts[j])

\* C20: extract_facts_and_figures returns at most 10 facts, no string twice,
\* each whitespace-normalized and longer than 20 characters if it is the
\* context of a numeric match, longer than 15 if of a date match; the facts of
\* the numeric patterns stand before those of the date patterns, pattern after
\* pattern, and within a pattern in the order of the matches.
C20_FactsCappedDistinctInOrder ==
    (stage = "passage" /\ "facts" \in ran)
        => /\ Len(figures) <= 10
           /\ \A i \in 1..Len(figures) :
                 /\ figures[i] = NormalizeSpace(figures[i])
                 /\ \/ /\ Len(figures[i]) > 20
                       /\ \E c \in Range(FamilyFacts(passage.text, number_patterns,
                                                      NumberWindow, 0)) : c = figures[i]
                    \/ /\ Len(figures[i]) > 15
                       /\ \E c \in Range(FamilyFacts(passage.text, date_patterns,
                                                      DateWindow, 0)) : c = figures[i]
           /\ InOrderOfFirstOccurrence(figures, ContextsInOrder(passage.text))

\* nine years and two dates: the facts of the nine years, then the fact of
\* the first date, and the second date is past the cap
C20_NineYearsAndOneDate ==
    /\ stage = "passage" /\ "facts" \in ran
    /\ passage.text = ManyFigures
    /\ Len(figures) = 10
    /\ figures[1] = Slice(ManyFigures, 0, 59)
    /\ figures[9] = Slice(ManyFigures, 115, 219)
    /\ figures[10] = Slice(ManyFigures, 150, 229)

\* C21: in the fallback summary, when no sentence qualifies (more than 20
\* characters and more than 4 words) but the text has a sentence, the result
\* is the first sentence cut to max_length - 3 characters plus "..."; "Unable
\* to generate summary from the provided text." is returned only for a text
\* without any sentence.
C21_FirstRawSentenceWhenNoneQualifies ==
    LET Fallback(raw, qualifying) ==
            /\ (Len(qualifying) = 0 /\ Len(raw) > 0)
                   => summary = Prefix(raw[1], request.max_length - 3) \o Ellipsis
            /\ summary = Unable => Len(raw) = 0
    IN  (stage = "summary" /\ "summary" \in ran /\ ~model_loaded)
            => Fallback(NonEmptySentences(request.text),
                        RankedSentences(request.text, FallbackMinLen, FallbackMinWords))

\* with no model loaded, the text "Go now! " has the sentence "Go now", which
\* does not qualify, and the literal is returned
C21_UnableForShortSentence ==
    /\ stage = "summary" /\ "summary" \in ran /\ ~model_loaded
    /\ request.text = SentenceD
    /\ NonEmptySentences(request.text) = << <<"G", "o", " ", "n", "o", "w">> >>
    /\ summary = Unable

\* every call made of self.summarizer raised
EveryCallRaised == Len(calls) > 0 /\ \A j \in 1..Len(outcomes) : ~outcomes[j].ok

\* C22: a process whose summarization model failed to load stays without it:
\* no step loads the model, no call of generate_summary calls self.summarizer,
\* and every call returns the extractive fallback; with a model, a call of
\* generate_summary whose direct call raised, or whose chunk calls all
\* raised, returns the extractive fallback of the original text.
C22_DegradedForLife ==
    [][/\ model_loaded' = model_loaded
       /\ (~model_loaded) => calls' = <<>>
       /\ ("summary" \in ran' /\ "summary" \notin ran
             /\ (~model_loaded \/ EveryCallRaised'))
              => summary' = _comprehensive_fallback_summary(request.text, request.max_length)
      ]_vars

\* the second call of a process without the model: the direct-path text got
\* the fallback and self.summarizer was not called
C22_SecondCallStillDegraded ==
    /\ stage = "summary" /\ "summary" \in ran
    /\ ~model_loaded
    /\ served = 2
    /\ request.text = DirectText
    /\ calls = <<>>
    /\ summary = _comprehensive_fallback_summary(DirectText, 300)
    /\ summary # Unable

\* the start offsets of the valid matches of any pattern in text whose cleaned
\* form is expression
OffsetsOf(text, expression) ==
    LET Offsets(all) ==
            {all[j].position : j \in {i \in 1..Len(all) : all[i].expression = expression}}
    IN  Offsets(FormulaMatches(text))

\* item.context is the text from 100 characters before the match at
\* item.position to 100 after it, within the text, stripped
ContextAroundMatch(text, item) ==
    \E e \in item.position..Len(text) :
        /\ clean_expression(Slice(text, item.position, e)) = item.expression
        /\ item.context = Strip(Slice(text, Max(0, item.position - 100),
                                      Min(Len(text), e + 100)))

\* C23: extract_formulas_with_context keeps, for each cleaned expression, the
\* match with the smallest start offset, also when a pattern earlier in the
\* list matches the same cleaned expression at a later offset; the result is
\* sorted ascending by start offset, and each context is the text from at
\* most 100 characters before the match to at most 100 after it.
C23_SmallestOffsetWins ==
    (stage = "math" /\ "formulas" \in ran)
        => /\ \A k \in 1..Len(formulas) :
                 /\ formulas[k].position
                        = SetMin(OffsetsOf(mathText, formulas[k].expression))
                 /\ ContextAroundMatch(mathText, formulas[k])
           /\ \A k \in 1..(Len(formulas) - 1) :
                 formulas[k].position <= formulas[k + 1].position

\* in "$$ x + y = z $$" the delimited pattern matches at offset 0 and the
\* equation pattern, the first of the list, matches " x + y = z " at offset 2:
\* the entry kept has position 2
C23_EarlierPatternWins ==
    /\ stage = "math" /\ "formulas" \in ran
    /\ mathText = DelimitedText
    /\ OffsetsOf(mathText, XPlusYIsZ) = {0, 2}
    /\ Len(formulas) = 1
    /\ formulas[1].expression = XPlusYIsZ
    /\ formulas[1].position = 2

\* C24: a call of a named function with a mathematical symbol in its argument,
\* such as "sin(x + 1)", is returned by extract_expressions as the whole call,
\* the cleaned expression extract_formulas_with_context reports for it: before
\* the caps of 50 and 30, the two return the same set of cleaned expressions.
C24_SameExpressionsInBothVariants ==
    (stage = "math" /\ "expressions" \in ran /\ "formulas" \in ran
       /\ Len(expressions) < 50 /\ Len(formulas) < 30)
        => Range(expressions) = {formulas[k].expression : k \in 1..Len(formulas)}

\* for "sin(x + 1)" extract_formulas_with_context reports the call and
\* extract_expressions returns nothing
C24_FunctionCallOnlyWithContext ==
    /\ stage = "math" /\ "expressions" \in ran /\ "formulas" \in ran
    /\ mathText = FunctionText
    /\ expressions = <<>>
    /\ Len(formulas) = 1
    /\ formulas[1].expression = FunctionText
    /\ formulas[1].position = 0

\* the table extractor returned a non-empty table with a non-empty row
SomeTableHasARow(page) ==
    /\ page.tables.ok
    /\ \E t \in 1..Len(page.tables.value) :
          \E r \in 1..Len(page.tables.value[t]) : Len(page.tables.value[t][r]) > 0

\* C25: detect_content_types sets has_table exactly when the table extractor
\* returns at least one non-empty table with at least one non-empty row: it
\* is true when the first table is empty and a later one is not, and false
\* when every row of every table is empty; the rows of the tables of a page
\* are in its content only when has_table is true.
C25_HasTableIffSomeTableHasARow ==
    (stage = "document" /\ "text" \in ran /\ extracted.ok)
        => \A k \in 1..Len(extracted.pages_data) :
              /\ extracted.pages_data[k].content_type.has_table
                     <=> SomeTableHasARow(upload.file.pages[k])
              /\ ~extracted.pages_data[k].content_type.has_table
                     => extracted.pages_data[k].tables = <<>>

\* the first table of the page is empty and its second table has a row:
\* has_table is false and the row is not in the text
C25_LaterTableIgnored ==
    /\ stage = "document" /\ "text" \in ran /\ extracted.ok
    /\ upload.file.pages = <<EmptyPage>>
    /\ Len(EmptyPage.tables.value[1]) = 0
    /\ SomeTableHasARow(EmptyPage)
    /\ ~extracted.pages_data[1].content_type.has_table
    /\ extracted.text = <<>>

\* the page without the images that cannot be read
ReadableOnly(page) ==
    [page EXCEPT !.images = SelectSeq(page.images, LAMBDA img : img.ok)]

\* C26: an image that cannot be decoded or read does not end the
\* classification or the aggregation of its page: the other images are probed
\* in order, has_text, has_table and has_image keep their values, has_formula
\* is set when the OCR text of another image has a formula symbol, and the
\* page has its blob in the text of the document.
C26_FailedImageSkipped ==
    (stage = "document" /\ "text" \in ran /\ upload.file.ok) =>
        /\ extracted.ok
        /\ \A k \in 1..Len(upload.file.pages) :
              LET page == upload.file.pages[k]
                  data == extracted.pages_data[k]
              IN  (\E j \in 1..Len(page.images) : ~page.images[j].ok) =>
                      /\ data.content_type
                             = [detect_content_types(ReadableOnly(page))
                                    EXCEPT !.has_image = TRUE]
                      /\ data.images
                             = [j \in 1..Len(ReadableOnly(page).images) |->
                                   [ocr_text |-> ReadableOnly(page).images[j].ocr_text]]
                      /\ PageText(data) = PageText(process_page(ReadableOnly(page)))
        /\ extracted.text
               = Join([k \in 1..Len(upload.file.pages) |->
                          PageText(extracted.pages_data[k])], PageSep)

\* the first image of the scanned page cannot be read and its third image has
\* a formula: the page has a formula and the OCR text is in the document
C26_FormulaAfterFailedImage ==
    /\ stage = "document" /\ "text" \in ran /\ upload.file.ok
    /\ upload.file.pages = <<ScanPage>>
    /\ ~ScanPage.images[1].ok
    /\ extracted.ok
    /\ extracted.pages_data[1].content_type.has_formula
    /\ Len(extracted.pages_data[1].images) = 2
    /\ Contains(extracted.text, ScanPage.images[3].ocr_text)

\* the text with the stretch from start to end replaced by the marked entity
Replaced(text, span) ==
    Slice(text, 0, span.start) \o Marker \o span.text \o Marker
        \o Slice(text, span.end, Len(text))

WithoutMarkers(text) == SelectSeq(text, LAMBDA c : c # "*")

\* two spans of which one reaches into the other or lies in it
Overlapping(a, b) == a.start < b.end /\ b.start < a.end

\* C27: when two validated spans overlap or one lies in the other,
\* highlight_entities_in_text drops neither and does not merge them: it
\* replaces the span with the greater start first and then the other one, each
\* at its original offsets (so the result without the markers can differ from
\* the text).
C27_BothOverlappingSpansReplaced ==
    (stage = "ner" /\ "highlight" \in ran /\ nlp /\ doc.ok) =>
        LET spans == ValidSpans(doc.ents)
        IN  (Len(spans) = 2 /\ Overlapping(spans[1], spans[2])) =>
                LET first == IF spans[2].start > spans[1].start THEN 2 ELSE 1
                IN  highlighted = Replaced(Replaced(doc.text, spans[first]), spans[3 - first])

\* "New York" and "York City" overlap in "New York City": without the markers
\* the result is "New Yorkrk City"
C27_OverlapCorruptsText ==
    /\ stage = "ner" /\ "highlight" \in ran /\ nlp
    /\ doc = NewYorkCity
    /\ Len(ValidSpans(doc.ents)) = 2
    /\ highlighted = <<"*","*","N","e","w"," ","Y","o","r","k","*","*",
                       "r","k"," ","C","i","t","y","*","*">>
    /\ WithoutMarkers(highlighted) # doc.text

\* the text with each match of the inline-math pattern, stripped, between one
\* "$$ " and one " $$"
RECURSIVE WrappedFrom(_, _, _, _)
WrappedFrom(text, ms, k, from) ==
    IF k > Len(ms) THEN SubSeq(text, from, Len(text))
    ELSE SubSeq(text, from, ms[k].b - 1)
             \o MathOpen \o Strip(SubSeq(text, ms[k].b, ms[k].e - 1)) \o MathClose
             \o WrappedFrom(text, ms, k + 1, ms[k].e)

WrappedOnce(text) == WrappedFrom(text, finditer(text, math_pattern), 1, 1)

\* C28: after preserve_inline_math every stretch of the base text that matches
\* the inline-math pattern is in exactly one "$$ ... $$" pair, without nested
\* or doubled delimiters, also when the same match stands more than once on
\* the page or one match is part of another, and the text without the
\* delimiters is the original text up to whitespace.
C28_EachMatchWrappedOnce ==
    (stage = "document" /\ "text" \in ran /\ upload.file.ok /\ extracted.ok) =>
        \A k \in 1..Len(upload.file.pages) :
            extracted.pages_data[k].content_type.has_text
                => extracted.pages_data[k].text = WrappedOnce(upload.file.pages[k].text)

\* " x = 1" stands twice on the page: each one ends up in two pairs of delimiters
C28_DelimitersDoubled ==
    /\ stage = "document" /\ "text" \in ran /\ upload.file.ok /\ extracted.ok
    /\ upload.file.pages = <<TwicePage>>
    /\ findall1(TwicePage.text, math_pattern)
           = << <<" ", "x", " ", "=", " ", "1">>, <<" ", "x", " ", "=", " ", "1">> >>
    /\ extracted.pages_data[1].text =
        <<"T", "w", "i", "c", "e", ":", "$", "$", "$", "$", " ", "x", " ", "=", " ",
          "1", " ", "$", "$", " ", "$", "$", ";", "$", "$", "$", "$", " ", "x", " ",
          "=", " ", "1", " ", "$", "$", " ", "$", "$", ".", " ", "T", "h", "e", " ",
          "r", "e", "s", "t", " ", "o", "f", " ", "t", "h", "i", "s", " ", "p", "a",
          "g", "e", " ", "i", "s", " ", "p", "l", "a", "i", "n", " ", "t", "e", "x",
          "t", ".">>

\* C29: when generate_summary is called with 0 < min_length <= max_length,
\* every call of the summarization model gets bounds with
\* 1 <= min_length <= max_length, on the direct path (max_length - 100 and
\* max(min_length - 50, 30)) and on the chunked path (min(120, max_length
\* // chunk_count) and min(40, min_length // chunk_count)).
C29_BoundsPassedAreOrdered ==
    (stage = "summary" /\ "summary" \in ran
        /\ 0 < request.min_length /\ request.min_length <= request.max_length) =>
        \A j \in 1..Len(calls) :
            1 <= calls[j].min_length /\ calls[j].min_length <= calls[j].max_length

\* the direct path with max_length 10 and min_length 5: the model is asked for
\* at most -90 and at least 30
C29_NegativeMaxLength ==
    /\ stage = "summary" /\ "summary" \in ran /\ model_loaded
    /\ request = [text |-> DirectText, max_length |-> 10, min_length |-> 5]
    /\ Len(calls) = 1
    /\ calls[1].max_length = 0 - 90
    /\ calls[1].min_length = 30

\* C30: generate_summary returns a string that is not empty for every text
\* and whatever the summarization model does: an exception of the model does
\* not leave generate_summary, and the result is not empty when the model
\* returns an empty or blank summary for a text without key point and fact.
C30_SummaryNeverEmpty ==
    (stage = "summary" /\ "summary" \in ran) => Len(summary) > 0

\* fifty words in sentences of two words and a model that returns "": the
\* text has no key point and no fact, and generate_summary returns ""
C30_EmptySummaryReturned ==
    /\ stage = "summary" /\ "summary" \in ran /\ model_loaded
    /\ request.text = CommandsText
    /\ request.max_length = 300
    /\ Len(calls) = 1
    /\ outcomes = <<[ok |-> TRUE, summary_text |-> <<>>]>>
    /\ extract_key_points(request.text, NumKeyPoints) = <<>>
    /\ extract_facts_and_figures(request.text) = <<>>
    /\ summary = <<>>

=============================================================================
